---- MODULE Spec2Model ----
(***************************************************************************)
(* A state-machine model of script.ts, the client-side script of the       *)
(* SonicWall storefront page.  The script is one IIFE whose state is a few *)
(* module-level variables plus the closures of its init* functions; the    *)
(* DOM it reads and writes is modelled by the attributes, classes and      *)
(* inline styles the handlers touch.  Every handler is one action, since   *)
(* the browser runs each to completion on the single UI thread.            *)
(*                                                                         *)
(* The subsystems are independent, so each has a specification of its own  *)
(* (SpecCarousel, SpecTabs, ...) over the shared variables.                *)
(***************************************************************************)
EXTENDS Integers, Sequences, FiniteSets, TLC

\* ------------------------------------------------------------------------
\* Bounds of the model
\* ------------------------------------------------------------------------

\* Number of .dot elements of the testimonial carousel.
NDots == 3

\* Interval handles the model distinguishes (setInterval's handles are fresh;
\* a handle that is neither live nor held by testimonialInterval is reused).
MaxIntervalId == 2

\* Number of elements watched by the reveal observer of initScrollAnimations.
NAnimated == 2

\* Number of .brand-nav__tab elements.
NTabs == 3

\* Number of .category-tile elements (categoryMapping covers the first six).
NTiles == 7

\* Entries one IntersectionObserver callback delivers at most.
MaxEntries == 2

\* Elements of one kind an init* function finds at most.
MaxFound == 2

\* Images without a loading attribute initLazyLoading finds at most.
MaxImages == 5

\* Calls of init() the model counts.
MaxInitCalls == 2

\* gen7 cards on the page at most, over both product containers.
MaxCards == 2

\* Columns of the product grid at most.
MaxCols == 2
MaxChildren == 3

\* .btn--amazon buttons in the last row of the comparison table
NLastRow == 5

\* clicks counted by the cart counter
MaxCount == 3

\* ripple spans in the document at a time, and pending cart timeouts at a time
MaxPending == 2

\* checkboxes of the frequently-bought-together block
NCheckboxes == 3

\* ------------------------------------------------------------------------
\* Program constants
\* ------------------------------------------------------------------------

TOUCH_SWIPE_THRESHOLD == 75

PRODUCT_STAGGER_DELAY == 100

\* screenX values of touches: differences cover 0, +-75, +-76 and +-151.
TouchXs == {0, 75, 151}

Keys == {"Enter", " ", "ArrowRight", "ArrowLeft", "Tab"}

VARIABLES
  \* environment and trace
  prefersReducedMotion,   \* let prefersReducedMotion (live)
  lastOp,                 \* the handler that ran last, with its argument
  \* observers
  observers,              \* const observers: IntersectionObserver[]
  connected,              \* the observers that still deliver callbacks
  revealObserved,         \* targets the reveal observer still observes
  elVisible,              \* animated elements carrying class 'visible'
  \* testimonial carousel
  currentTestimonialIndex,
  testimonialInterval,    \* handle held by the variable, 0 for null
  liveIntervals,          \* handles of intervals that still tick
  touchStartX,
  touchEndX,
  dotActive,              \* dots carrying class 'dot--active'
  dotAria,                \* aria-selected of each dot
  dotTabindex,            \* tabindex of each dot
  \* tab navigation
  tabSection,             \* data-section of each .brand-nav__tab ("none" if absent)
  tabActive,              \* tabs carrying class 'brand-nav__tab--active'
  tabAria,                \* aria-selected of each tab
  tabTabindex,            \* tabindex of each tab
  initialTabTimer,        \* setTimeout(setInitialActiveTab, 100) still pending
  focusedTab,             \* the tab that has the keyboard focus, NoTab if none has
  \* page load and init()
  readyState,             \* document.readyState
  evaluated,              \* the IIFE has run
  evaluatedAt,            \* document.readyState when it ran ("" before)
  dclListener,            \* init is registered for DOMContentLoaded
  dclFired,               \* DOMContentLoaded has been dispatched
  initPc,                 \* 0: init() not running; k: its k-th call is next
  initCalls,              \* calls of init() so far
  initRuns,               \* calls of each init* function so far
  lastInit,               \* the init* function that ran last: what it found and did
  \* "See more products" toggles, one closure per toggleConfig
  nCards,                 \* gen7Products.length
  isExpanded,
  isAnimating,
  ariaExpanded,           \* aria-expanded of the button
  buttonText,             \* textContent of the button ("html": as authored)
  buttonDisabled,
  cards,                  \* per gen7 card: inline display, opacity, transform; classes
  timers,                 \* pending setTimeout callbacks, in firing order
  \* window, sticky header, throttles
  scrollY,                \* window.scrollY
  amazonHeight,           \* amazonHeader.offsetHeight
  brandHeight,            \* brandHeader.offsetHeight
  stickyThreshold,        \* cached by initStickyHeader
  brandHeaderHeight,      \* cached by initStickyHeader
  isSticky,
  headerSticky,           \* the brand header carries class 'brand-header--sticky'
  headerPosition,         \* inline position of the brand header (with top, left, ...)
  bodyPaddingTop,         \* inline paddingTop of the body: <<>>, <<0>> or <<n, "px">>
  ticking,                \* the ticking flag of each createThrottle() gate
  rafQueue,               \* requestAnimationFrame callbacks not yet run, in order
  resizeTimer,            \* the debounce timer of handleResize is pending
  navScrollLeft,          \* navContainer.scrollLeft
  indicatorOpacity,       \* inline opacity of the left and right nav indicators
  wrapperScrollTop,       \* scrollTop of .comparison-table-wrapper
  theadPosition,          \* inline position of the comparison table's thead
  \* hero video
  preloadAtInit,          \* video.preload when initHeroVideo ran
  videoPreload,           \* video.preload
  loadCalls,              \* calls of video.load()
  playCalls,              \* calls of video.play()
  heroTimer,              \* setTimeout(loadAndPlay, 3000) is pending
  heroListeners,          \* window events onInteraction still listens to
  \* frequently bought together
  fbtLabels,              \* textContent of each checkbox's label
  prices,                 \* the prices array, in cents
  fbtChecked,             \* checkbox.checked of each checkbox
  totalText,              \* totalPriceEl.textContent, as a sequence of characters
  productOpacity,         \* inline opacity of each .fbt-product
  plusOpacity,            \* inline opacity of each .fbt-plus
  addToCartBtn,           \* textContent and disabled of the add-to-cart button
  \* cart counter and button ripples
  currentCount,           \* currentCount of initCartCounter
  cartCountText,          \* cartCount.textContent, as the number it shows
  cartCountStyle,         \* inline color and transform of the cart count
  cartTimers,             \* pending reset timeouts of the cart count, oldest first
  rippleListeners,        \* initButtonRippleEffect registered its click listeners
  ripples,                \* ripple spans in the document
  \* scroll animations: one grid parent and its children
  grid,                   \* the parent: its class, its computed columns, its children
  transitionDelay,        \* inline transitionDelay of each child: <<>> or <<1/100 s>>
  staggerPending          \* the read pass's animation frame has not run yet

envVars == <<prefersReducedMotion>>
observerVars == <<observers, connected, revealObserved, elVisible>>
carouselVars == <<currentTestimonialIndex, testimonialInterval, liveIntervals,
                  touchStartX, touchEndX, dotActive, dotAria, dotTabindex>>
dotVars == <<dotActive, dotAria, dotTabindex>>
intervalVars == <<testimonialInterval, liveIntervals>>

tabStateVars == <<tabActive, tabAria, tabTabindex>>
tabVars == <<tabSection, tabActive, tabAria, tabTabindex, initialTabTimer, focusedTab>>

loadVars == <<readyState, evaluated, evaluatedAt, dclListener, dclFired, initPc, initCalls,
              initRuns, lastInit>>

toggleStateVars == <<isExpanded, isAnimating, ariaExpanded, buttonText, buttonDisabled,
                     cards, timers>>
toggleVars == <<nCards, toggleStateVars>>

stickyVars == <<stickyThreshold, brandHeaderHeight, isSticky, headerSticky,
                headerPosition, bodyPaddingTop>>
gateVars == <<ticking, rafQueue>>
geometryVars == <<scrollY, amazonHeight, brandHeight, navScrollLeft, wrapperScrollTop>>
heroVars == <<preloadAtInit, videoPreload, loadCalls, playCalls, heroTimer, heroListeners>>
windowVars == <<geometryVars, stickyVars, gateVars, resizeTimer, indicatorOpacity,
                theadPosition, heroVars>>

fbtViewVars == <<totalText, productOpacity, plusOpacity, addToCartBtn>>
fbtVars == <<fbtLabels, prices, fbtChecked, fbtViewVars>>

cartVars == <<currentCount, cartCountText, cartCountStyle, cartTimers>>
buttonVars == <<cartVars, rippleListeners, ripples>>

staggerVars == <<grid, transitionDelay, staggerPending>>

vars == <<prefersReducedMotion, lastOp, observerVars, carouselVars, tabVars, loadVars,
          toggleVars, windowVars, fbtVars, buttonVars, staggerVars>>

\* What the handlers of one subsystem leave alone.
notCarousel == <<tabVars, loadVars, toggleVars, windowVars, fbtVars, buttonVars, staggerVars>>
notTabs == <<carouselVars, loadVars, toggleVars, windowVars, fbtVars, buttonVars, staggerVars>>
notLoad == <<observerVars, carouselVars, tabVars, toggleVars, windowVars, fbtVars, buttonVars, staggerVars>>
notToggles == <<observerVars, carouselVars, tabVars, loadVars, windowVars, fbtVars, buttonVars, staggerVars>>
notWindow == <<observerVars, carouselVars, tabVars, loadVars, toggleVars, fbtVars, buttonVars, staggerVars>>
notFBT == <<observerVars, carouselVars, tabVars, loadVars, toggleVars, windowVars, buttonVars,
           staggerVars>>
notButtons == <<observerVars, carouselVars, tabVars, loadVars, toggleVars, windowVars, fbtVars,
               staggerVars>>
notStagger == <<observerVars, carouselVars, tabVars, loadVars, toggleVars, windowVars, fbtVars,
                buttonVars>>

Dots == 0 .. (NDots - 1)
Tabs == 0 .. (NTabs - 1)
Tiles == 0 .. (NTiles - 1)

\* data-section values of the page
Sections == {"firewalls", "networking", "cloud-edge"}

\* The sequences of at most n sections.
RECURSIVE SectionSeqs(_)
SectionSeqs(n) ==
  IF n = 0
    THEN {<<>>}
    ELSE LET shorter == SectionSeqs(n - 1)
         IN shorter \cup {Append(q, x) : q \in shorter, x \in Sections}

\* The entries of one observer callback, as the data-section values of the
\* intersecting targets: one entry per target at most.
EntryLists(n) ==
  {q \in SectionSeqs(n) : q # <<>> /\ \A i, j \in DOMAIN q : q[i] = q[j] => i = j}

Animated == 0 .. (NAnimated - 1)
IntervalIds == 1 .. MaxIntervalId

\* The trace of the last handler: its name, the index of the element it ran on and,
\* for the handlers driven by page sections, the data-section values it was given.
OpS(name, i, sections) == [op |-> name, idx |-> i, secs |-> sections]

Op(name, i) == OpS(name, i, <<>>)

Abs(x) == IF x < 0 THEN -x ELSE x

Range(s) == {s[i] : i \in 1 .. Len(s)}

\* ------------------------------------------------------------------------
\* prefersReducedMotion: the media query's change listener
\* ------------------------------------------------------------------------

MotionChange(b) ==
  /\ b # prefersReducedMotion
  /\ prefersReducedMotion' = b
  /\ lastOp' = Op("motionChange", 0)

\* ------------------------------------------------------------------------
\* Testimonial carousel (initTestimonialCarousel)
\* ------------------------------------------------------------------------

updateActiveDot_addOnly(index) ==
  /\ dotActive' = dotActive \cup {index}
  /\ dotAria' = [i \in Dots |-> IF i = index THEN "true" ELSE "false"]
  /\ dotTabindex' = [i \in Dots |-> IF i = index THEN "0" ELSE "-1"]

\* updateActiveDot(index)
updateActiveDot(index) ==
  /\ dotActive' = {i \in Dots : i = index}
  /\ dotAria' = [i \in Dots |-> IF i = index THEN "true" ELSE "false"]
  /\ dotTabindex' = [i \in Dots |-> IF i = index THEN "0" ELSE "-1"]

nextTestimonial ==
  /\ currentTestimonialIndex' = (currentTestimonialIndex + 1) % NDots
  /\ updateActiveDot((currentTestimonialIndex + 1) % NDots)

prevTestimonial ==
  /\ currentTestimonialIndex' = (currentTestimonialIndex - 1 + NDots) % NDots
  /\ updateActiveDot((currentTestimonialIndex - 1 + NDots) % NDots)

\* A handle setInterval can return: not live, and not the one the variable holds.
FreshIds == IntervalIds \ (liveIntervals \cup {testimonialInterval})

CanSetInterval == prefersReducedMotion \/ FreshIds # {}

FreshId == CHOOSE id \in FreshIds : \A other \in FreshIds : id <= other

\* clearInterval(handle): clearing null or a dead handle does nothing.
Cleared(handle) == liveIntervals \ {handle}

resetInterval_noClear ==
  IF ~prefersReducedMotion
    THEN /\ testimonialInterval' = FreshId
         /\ liveIntervals' = liveIntervals \cup {FreshId}
    ELSE UNCHANGED intervalVars

resetInterval ==
  LET afterClear == IF testimonialInterval # 0
                      THEN Cleared(testimonialInterval)
                      ELSE liveIntervals
  IN IF ~prefersReducedMotion
       THEN /\ testimonialInterval' = FreshId
            /\ liveIntervals' = afterClear \cup {FreshId}
       ELSE /\ liveIntervals' = afterClear
            /\ UNCHANGED testimonialInterval

\* dot click
DotClick(index) ==
  /\ CanSetInterval
  /\ currentTestimonialIndex' = index
  /\ updateActiveDot(index)
  /\ resetInterval
  /\ lastOp' = Op("dotClick", 0)
  /\ UNCHANGED <<notCarousel, envVars, observerVars, touchStartX, touchEndX>>

\* dot keydown: the three ifs of the handler run in turn; at most one matches.
DotKeydown(index, key) ==
  /\ CanSetInterval
  /\ lastOp' = OpS("dotKeydown", 0, <<key>>)
  /\ UNCHANGED <<notCarousel, envVars, observerVars, touchStartX, touchEndX>>
  /\ CASE key \in {"Enter", " "} ->
            /\ currentTestimonialIndex' = index
            /\ updateActiveDot(index)
            /\ resetInterval
       [] key = "ArrowRight" ->
            /\ currentTestimonialIndex' = (index + 1) % NDots
            /\ updateActiveDot((index + 1) % NDots)
            /\ resetInterval
       [] key = "ArrowLeft" ->
            /\ currentTestimonialIndex' = (index - 1 + NDots) % NDots
            /\ updateActiveDot((index - 1 + NDots) % NDots)
            /\ resetInterval
       [] OTHER -> UNCHANGED <<currentTestimonialIndex, dotVars, intervalVars>>

TouchStart(x) ==
  /\ touchStartX' = x
  /\ lastOp' = Op("touchstart", 0)
  /\ UNCHANGED <<notCarousel, envVars, observerVars, currentTestimonialIndex, intervalVars,
                 touchEndX, dotVars>>

handleSwipe_atThreshold ==
  LET swipeDistance == touchEndX' - touchStartX
  IN IF Abs(swipeDistance) >= TOUCH_SWIPE_THRESHOLD
       THEN /\ IF swipeDistance > 0 THEN prevTestimonial ELSE nextTestimonial
            /\ resetInterval
       ELSE UNCHANGED <<currentTestimonialIndex, dotVars, intervalVars>>

\* handleSwipe(), called by the touchend listener after it stored touchEndX
handleSwipe ==
  LET swipeDistance == touchEndX' - touchStartX
  IN IF Abs(swipeDistance) > TOUCH_SWIPE_THRESHOLD
       THEN /\ IF swipeDistance > 0 THEN prevTestimonial ELSE nextTestimonial
            /\ resetInterval
       ELSE UNCHANGED <<currentTestimonialIndex, dotVars, intervalVars>>

TouchEnd(x) ==
  /\ CanSetInterval
  /\ touchEndX' = x
  /\ handleSwipe
  /\ lastOp' = Op("touchend", 0)
  /\ UNCHANGED <<notCarousel, envVars, observerVars, touchStartX>>

\* mouseenter on the section: the interval is cleared, the variable keeps the handle
MouseEnter ==
  /\ liveIntervals' = IF testimonialInterval # 0
                        THEN Cleared(testimonialInterval)
                        ELSE liveIntervals
  /\ lastOp' = Op("mouseenter", 0)
  /\ UNCHANGED <<notCarousel, envVars, observerVars, currentTestimonialIndex, testimonialInterval,
                 touchStartX, touchEndX, dotVars>>

MouseLeave ==
  /\ CanSetInterval
  /\ resetInterval
  /\ lastOp' = Op("mouseleave", 0)
  /\ UNCHANGED <<notCarousel, envVars, observerVars, currentTestimonialIndex,
                 touchStartX, touchEndX, dotVars>>

\* a live interval fires nextTestimonial
IntervalTick ==
  /\ liveIntervals # {}
  /\ nextTestimonial
  /\ lastOp' = Op("intervalTick", 0)
  /\ UNCHANGED <<notCarousel, envVars, observerVars, intervalVars, touchStartX, touchEndX>>

\* ------------------------------------------------------------------------
\* Tab navigation (initTabNavigation) and category tiles (initCategoryTiles)
\* ------------------------------------------------------------------------

NoTab == -1

\* document.querySelector('.brand-nav__tab[data-section="sec"]'): the first such tab.
FirstTabOf(sec) ==
  IF \E t \in Tabs : tabSection[t] = sec
    THEN CHOOSE t \in Tabs : tabSection[t] = sec /\ \A u \in Tabs : tabSection[u] = sec => t <= u
    ELSE NoTab

\* The loop over all tabs followed by the three writes to the chosen tab.
SelectTab(tab) ==
  /\ tabActive' = {tab}
  /\ tabAria' = [t \in Tabs |-> IF t = tab THEN "true" ELSE "false"]
  /\ tabTabindex' = [t \in Tabs |-> IF t = tab THEN "0" ELSE "-1"]

activateTab_keepOthers(tab) ==
  /\ tabActive' = tabActive \cup {tab}
  /\ tabAria' = [tabAria EXCEPT ![tab] = "true"]
  /\ tabTabindex' = [tabTabindex EXCEPT ![tab] = "0"]

\* activateTab(tab); the smooth scroll it starts shows up later as scroll events.
activateTab(tab) == SelectTab(tab)

\* click on a tab; a href to another page returns before preventDefault.  Whether
\* the mouse click also moves the focus onto the tab depends on the browser: where
\* it does, FocusTab follows.
TabClick(tab, leavesPage) ==
  /\ IF leavesPage
       THEN /\ UNCHANGED tabStateVars
            /\ lastOp' = Op("tabClickNavigate", 0)
       ELSE /\ activateTab(tab)
            /\ lastOp' = Op("tabClick", tab)
  /\ UNCHANGED <<notTabs, envVars, observerVars, tabSection, initialTabTimer, focusedTab>>

\* The data-section values in page order; "none" stands for a tab without one.
SectionOrder == <<"firewalls", "networking", "cloud-edge", "none">>

SectionRank(sec) == CHOOSE i \in DOMAIN SectionOrder : SectionOrder[i] = sec

\* The tabs' data-section values a page can have: the tabs follow the page order of
\* their sections, several tabs may name one section, tabs without one come last.
TabLayouts ==
  {f \in [Tabs -> Sections \cup {"none"}] :
     \A t, u \in Tabs : t < u => SectionRank(f[t]) <= SectionRank(f[u])}

\* tabs[index + 1] || tabs[0]
NextTabOf(index) == IF index + 1 \in Tabs THEN index + 1 ELSE 0

\* tabs[index - 1] || tabs[tabs.length - 1]
PrevTabOf(index) == IF index - 1 \in Tabs THEN index - 1 ELSE NTabs - 1

\* keydown on a tab: the event goes to the tab that has the focus.
TabKeydown(tab, key) ==
  /\ focusedTab = tab
  /\ CASE key \in {"Enter", " "} ->
            /\ activateTab(tab)
            /\ UNCHANGED focusedTab
            /\ lastOp' = Op("tabKeyActivate", tab)
       [] key = "ArrowRight" ->
            /\ tabTabindex' = [[tabTabindex EXCEPT ![tab] = "-1"]
                                 EXCEPT ![NextTabOf(tab)] = "0"]
            /\ focusedTab' = NextTabOf(tab)
            /\ UNCHANGED <<tabActive, tabAria>>
            /\ lastOp' = Op("tabArrow", 0)
       [] key = "ArrowLeft" ->
            /\ tabTabindex' = [[tabTabindex EXCEPT ![tab] = "-1"]
                                 EXCEPT ![PrevTabOf(tab)] = "0"]
            /\ focusedTab' = PrevTabOf(tab)
            /\ UNCHANGED <<tabActive, tabAria>>
            /\ lastOp' = Op("tabArrow", 0)
       [] OTHER ->
            /\ UNCHANGED <<tabStateVars, focusedTab>>
            /\ lastOp' = Op("tabKeyOther", 0)
  /\ UNCHANGED <<notTabs, envVars, observerVars, tabSection, initialTabTimer>>

\* The user moves the focus onto a tab: sequential keyboard navigation stops only
\* at a tab with tabindex 0, and a mouse click that focuses a tab has activated
\* it, which gave it tabindex 0.
FocusTab(tab) ==
  /\ focusedTab # tab
  /\ tabTabindex[tab] = "0"
  /\ focusedTab' = tab
  /\ UNCHANGED <<notTabs, envVars, lastOp, observerVars, tabSection, tabStateVars,
                 initialTabTimer>>

\* The focus leaves the tabs.  No listener of the script hears a focus change, so
\* lastOp stays.
BlurTab ==
  /\ focusedTab # NoTab
  /\ focusedTab' = NoTab
  /\ UNCHANGED <<notTabs, envVars, lastOp, observerVars, tabSection, tabStateVars,
                 initialTabTimer>>

\* The tab state after the observer callback has gone through `entries`, the
\* data-section values of the entries with isIntersecting and ratio > 0.5.
RECURSIVE AfterEntries(_, _)
AfterEntries(entries, state) ==
  IF entries = <<>>
    THEN state
    ELSE LET activeTab == FirstTabOf(Head(entries))
             next == IF activeTab # NoTab
                       THEN [active |-> {activeTab},
                             aria |-> [t \in Tabs |-> IF t = activeTab THEN "true" ELSE "false"],
                             tabindex |-> [t \in Tabs |-> IF t = activeTab THEN "0" ELSE "-1"]]
                       ELSE state
         IN AfterEntries(Tail(entries), next)

TabState == [active |-> tabActive, aria |-> tabAria, tabindex |-> tabTabindex]

\* The entry that decided the outcome: the last one whose section has a tab.
RECURSIVE Effective(_)
Effective(entries) ==
  IF entries = <<>>
    THEN <<>>
    ELSE LET last == entries[Len(entries)]
         IN IF FirstTabOf(last) # NoTab
              THEN <<last>>
              ELSE Effective(SubSeq(entries, 1, Len(entries) - 1))

\* the sectionObserver callback
SectionCallback(entries) ==
  /\ "section" \in connected
  /\ LET after == AfterEntries(entries, TabState)
     IN /\ tabActive' = after.active
        /\ tabAria' = after.aria
        /\ tabTabindex' = after.tabindex
  /\ lastOp' = OpS("sectionCallback", 0, Effective(entries))
  /\ UNCHANGED <<notTabs, envVars, observerVars, tabSection, initialTabTimer, focusedTab>>

\* setInitialActiveTab(): `visible` is <<>> when scrollY <= 100 or no section is in
\* the viewport, else the data-section of the section that fills most of it.
setInitialActiveTab(visible) ==
  LET after == AfterEntries(visible, TabState)
  IN /\ tabActive' = after.active
     /\ tabAria' = after.aria
     /\ tabTabindex' = after.tabindex

\* the timer of setTimeout(setInitialActiveTab, 100)
InitialTabTimer(visible) ==
  /\ initialTabTimer
  /\ initialTabTimer' = FALSE
  /\ setInitialActiveTab(visible)
  /\ lastOp' = OpS("setInitialActiveTab", 0, Effective(visible))
  /\ UNCHANGED <<notTabs, envVars, observerVars, tabSection, focusedTab>>

\* categoryMapping of initCategoryTiles: tile index (from 0) to section.
CategoryMapping ==
  <<"firewalls", "firewalls", "firewalls", "cloud-edge", "networking", "cloud-edge">>

\* clickHandler of a category tile.  The tab found by the second query is itself an
\* element with the data-section, so a tab is only looked up when the first query
\* finds something.  The tile handler writes class and aria-selected, not tabindex.
TileClick(index) ==
  /\ IF index + 1 \in DOMAIN CategoryMapping
       THEN LET section == CategoryMapping[index + 1]
                correspondingTab == FirstTabOf(section)
            IN IF correspondingTab # NoTab
                 THEN /\ tabActive' = {correspondingTab}
                      /\ tabAria' = [t \in Tabs |->
                                       IF t = correspondingTab THEN "true" ELSE "false"]
                      /\ UNCHANGED tabTabindex
                      /\ lastOp' = OpS("tileClick", 0, <<section>>)
                 ELSE /\ UNCHANGED tabStateVars
                      /\ lastOp' = Op("tileClickNoTab", 0)
       ELSE /\ UNCHANGED tabStateVars
            /\ lastOp' = Op("tileClickNoTab", 0)
  /\ UNCHANGED <<notTabs, envVars, observerVars, tabSection, initialTabTimer, focusedTab>>

\* keydown on a tile: Enter and Space call clickHandler
TileKeydown(index, key) ==
  IF key \in {"Enter", " "}
    THEN TileClick(index)
    ELSE /\ lastOp' = Op("tileKeyOther", 0)
         /\ UNCHANGED <<notTabs, envVars, observerVars, tabVars>>

\* ------------------------------------------------------------------------
\* The reveal observer of initScrollAnimations
\* ------------------------------------------------------------------------

\* One entry of the callback: an intersecting target becomes visible and is unobserved.
RevealCallback(e) ==
  /\ "reveal" \in connected
  /\ e \in revealObserved
  /\ elVisible' = elVisible \cup {e}
  /\ revealObserved' = revealObserved \ {e}
  /\ lastOp' = Op("revealCallback", 0)
  /\ UNCHANGED <<notCarousel, envVars, observers, connected, carouselVars>>

\* ------------------------------------------------------------------------
\* cleanup (beforeunload)
\* ------------------------------------------------------------------------

cleanup ==
  /\ liveIntervals' = IF testimonialInterval # 0
                        THEN Cleared(testimonialInterval)
                        ELSE liveIntervals
  /\ UNCHANGED testimonialInterval
  /\ connected' = connected \ Range(observers)
  /\ revealObserved' = IF "reveal" \in Range(observers) THEN {} ELSE revealObserved

BeforeUnload ==
  /\ cleanup
  /\ lastOp' = Op("cleanup", 0)
  /\ UNCHANGED <<notCarousel, envVars, observers, elVisible, currentTestimonialIndex,
                 touchStartX, touchEndX, dotVars>>

\* ------------------------------------------------------------------------
\* "See more products" toggles (initProductToggles)
\* ------------------------------------------------------------------------

\* buttonId of each toggleConfig
Toggles == {"tz-see-more", "nsa-see-more"}

Max(a, b) == IF a > b THEN a ELSE b

\* A gen7 card as the page is authored: no inline style, no animation class.
PlainCard == [display |-> "", opacity |-> "", transform |-> "", fadeInUp |-> FALSE,
              visible |-> FALSE]

Timer(kind, card, delay) == [kind |-> kind, card |-> card, due |-> delay]

\* setTimeout: the callback runs after those due no later.
RECURSIVE SetTimeout(_, _)
SetTimeout(queue, timer) ==
  IF queue = <<>> \/ timer.due < Head(queue).due
    THEN <<timer>> \o queue
    ELSE <<Head(queue)>> \o SetTimeout(Tail(queue), timer)

RECURSIVE SetTimeouts(_, _)
SetTimeouts(queue, new) ==
  IF new = <<>> THEN queue ELSE SetTimeouts(SetTimeout(queue, Head(new)), Tail(new))

\* The time to the head's due passes for the timers behind it.
AfterHead(queue) ==
  [k \in 1 .. (Len(queue) - 1) |->
     [queue[k + 1] EXCEPT !.due = @ - Head(queue).due]]

ExpandTimers_enableAtOnce(n, gridCols) ==
  [k \in 1 .. n |-> Timer("reveal", k - 1, ((k - 1) % gridCols) * PRODUCT_STAGGER_DELAY)]
    \o <<Timer("enable", 0, 0)>>

\* The expand branch's timers, in the order it sets them: one per card by column,
\* then the one that re-enables the button.
ExpandTimers(n, gridCols) ==
  [k \in 1 .. n |-> Timer("reveal", k - 1, ((k - 1) % gridCols) * PRODUCT_STAGGER_DELAY)]
    \o <<Timer("enable", 0, ((gridCols - 1) * PRODUCT_STAGGER_DELAY) + 400)>>

CollapseTimers_afterLastCard(n) ==
  [k \in 1 .. n |-> Timer("hide", k - 1, (k - 1) * 40)]
    \o (IF n = 0 THEN <<>> ELSE <<Timer("finish", 0, Max(((n - 1) * 40) + 300, 500))>>)

\* The collapse branch's timers: one per card, then the one that hides all cards
\* and re-enables the button.
CollapseTimers(n) ==
  [k \in 1 .. n |-> Timer("hide", k - 1, (k - 1) * 40)]
    \o <<Timer("finish", 0, Max(((n - 1) * 40) + 300, 500))>>

handleToggle_noGuard(b, gridCols) ==
  /\ isAnimating' = [isAnimating EXCEPT ![b] = TRUE]
  /\ isExpanded' = [isExpanded EXCEPT ![b] = ~@]
  /\ ariaExpanded' = [ariaExpanded EXCEPT ![b] = IF isExpanded[b] THEN "false" ELSE "true"]
  /\ buttonDisabled' = [buttonDisabled EXCEPT ![b] = TRUE]
  /\ IF ~isExpanded[b]
       THEN /\ cards' = [cards EXCEPT ![b] =
                           [k \in DOMAIN @ |-> [@[k] EXCEPT !.display = "block"]]]
            /\ buttonText' = [buttonText EXCEPT ![b] = "Show fewer products"]
            /\ timers' = [timers EXCEPT ![b] =
                            SetTimeouts(@, ExpandTimers(nCards[b], gridCols))]
       ELSE /\ UNCHANGED cards
            /\ buttonText' = [buttonText EXCEPT ![b] = "See more products"]
            /\ timers' = [timers EXCEPT ![b] = SetTimeouts(@, CollapseTimers(nCards[b]))]

\* handleToggle of button b; gridCols is what the computed grid-template-columns
\* of the cards' parent splits into (5 when there is no card or no value).
handleToggle(b, gridCols) ==
  IF isAnimating[b]
    THEN UNCHANGED toggleStateVars
    ELSE /\ isAnimating' = [isAnimating EXCEPT ![b] = TRUE]
         /\ isExpanded' = [isExpanded EXCEPT ![b] = ~@]
         /\ ariaExpanded' = [ariaExpanded EXCEPT ![b] =
                               IF isExpanded[b] THEN "false" ELSE "true"]
         /\ buttonDisabled' = [buttonDisabled EXCEPT ![b] = TRUE]
         /\ IF ~isExpanded[b]
              THEN /\ cards' = [cards EXCEPT ![b] =
                                  [k \in DOMAIN @ |-> [@[k] EXCEPT !.display = "block"]]]
                   /\ buttonText' = [buttonText EXCEPT ![b] = "Show fewer products"]
                   /\ timers' = [timers EXCEPT ![b] =
                                   SetTimeouts(@, ExpandTimers(nCards[b], gridCols))]
              ELSE /\ UNCHANGED cards
                   /\ buttonText' = [buttonText EXCEPT ![b] = "See more products"]
                   /\ timers' = [timers EXCEPT ![b] =
                                   SetTimeouts(@, CollapseTimers(nCards[b]))]

\* The column counts getComputedStyle can yield for button b's cards.
GridCols(b) == IF nCards[b] = 0 THEN {5} ELSE (1 .. MaxCols) \cup {5}

\* click on a toggle button
ToggleClick(b, gridCols) ==
  /\ handleToggle(b, gridCols)
  /\ lastOp' = OpS("toggleClick", 0, <<b>>)
  /\ UNCHANGED <<notToggles, envVars, nCards>>

Reveal_classOnly(card) ==
  IF prefersReducedMotion
    THEN card
    ELSE [card EXCEPT !.fadeInUp = TRUE, !.visible = TRUE]

\* The callback of the expand branch's per-card timer.
Reveal(card) ==
  IF prefersReducedMotion
    THEN [card EXCEPT !.opacity = "1", !.transform = "translateY(0)"]
    ELSE [card EXCEPT !.fadeInUp = TRUE, !.visible = TRUE]

\* The callback of the collapse branch's per-card timer.
Hide(card) ==
  IF prefersReducedMotion
    THEN [card EXCEPT !.visible = FALSE, !.opacity = "", !.transform = "",
                      !.display = "none"]
    ELSE [card EXCEPT !.visible = FALSE]

Finish_displayOnly(card) == [card EXCEPT !.display = "none"]

\* The collapse branch's last timer, for one card.
Finish(card) == [card EXCEPT !.display = "none", !.opacity = "", !.transform = ""]

Reenable_flagOnly(b) ==
  /\ isAnimating' = [isAnimating EXCEPT ![b] = FALSE]
  /\ UNCHANGED buttonDisabled

\* The last two statements of both re-enable timers.
Reenable(b) ==
  /\ isAnimating' = [isAnimating EXCEPT ![b] = FALSE]
  /\ buttonDisabled' = [buttonDisabled EXCEPT ![b] = FALSE]

\* The next timer of toggle b fires.
ToggleTimer(b) ==
  /\ timers[b] # <<>>
  /\ LET timer == Head(timers[b])
     IN /\ timers' = [timers EXCEPT ![b] = AfterHead(@)]
        /\ CASE timer.kind = "reveal" ->
                  /\ cards' = [cards EXCEPT ![b][timer.card + 1] = Reveal(@)]
                  /\ UNCHANGED <<isAnimating, buttonDisabled>>
             [] timer.kind = "hide" ->
                  /\ cards' = [cards EXCEPT ![b][timer.card + 1] = Hide(@)]
                  /\ UNCHANGED <<isAnimating, buttonDisabled>>
             [] timer.kind = "enable" ->
                  /\ Reenable(b)
                  /\ UNCHANGED cards
             [] timer.kind = "finish" ->
                  /\ cards' = [cards EXCEPT ![b] = [k \in DOMAIN @ |-> Finish(@[k])]]
                  /\ Reenable(b)
        /\ lastOp' = OpS("toggleTimer", timer.card, <<b, timer.kind>>)
  /\ UNCHANGED <<notToggles, envVars, nCards, isExpanded, ariaExpanded, buttonText>>

\* The toggles as initProductToggles leaves them, each with count[b] gen7 cards.
TogglesAfterInit(count) ==
  /\ nCards = count
  /\ isExpanded = [b \in Toggles |-> FALSE]
  /\ isAnimating = [b \in Toggles |-> FALSE]
  /\ ariaExpanded = [b \in Toggles |-> "false"]
  /\ buttonText = [b \in Toggles |-> "html"]
  /\ buttonDisabled = [b \in Toggles |-> FALSE]
  /\ cards = [b \in Toggles |-> [k \in 1 .. count[b] |-> PlainCard]]
  /\ timers = [b \in Toggles |-> <<>>]

\* ------------------------------------------------------------------------
\* createThrottle, the sticky header, the nav indicators, the comparison table's
\* thead and the hero video: the handlers of window and scroll events
\* ------------------------------------------------------------------------

\* One gate per call of createThrottle().
Gates == {"stickyHeader", "mobileNav", "comparisonTable"}

\* scrollWidth and clientWidth of the nav container
NavGeometry == [scrollWidth |-> 130, clientWidth |-> 100]

InteractionEvents == {"scroll", "mousemove", "touchstart", "keydown"}

throttle_sharedFlag(gate) ==
  IF \E g \in Gates : ticking[g]
    THEN UNCHANGED gateVars
    ELSE /\ ticking' = [ticking EXCEPT ![gate] = TRUE]
         /\ rafQueue' = Append(rafQueue, gate)

\* throttle(callback) of one gate: dropped while that gate's frame is pending.
throttle(gate) ==
  IF ticking[gate]
    THEN UNCHANGED gateVars
    ELSE /\ ticking' = [ticking EXCEPT ![gate] = TRUE]
         /\ rafQueue' = Append(rafQueue, gate)

\* applySticky(); the inline top, left, width, zIndex and boxShadow go with position.
applySticky(sticky, height) ==
  IF sticky
    THEN UNCHANGED <<isSticky, headerSticky, headerPosition, bodyPaddingTop>>
    ELSE /\ isSticky' = TRUE
         /\ headerSticky' = TRUE
         /\ headerPosition' = "fixed"
         /\ bodyPaddingTop' = <<height, "px">>

removeSticky ==
  IF ~isSticky
    THEN UNCHANGED <<isSticky, headerSticky, headerPosition, bodyPaddingTop>>
    ELSE /\ isSticky' = FALSE
         /\ headerSticky' = FALSE
         /\ headerPosition' = ""
         /\ bodyPaddingTop' = <<0>>

StickyFrame_applyOnly ==
  /\ IF scrollY > stickyThreshold
       THEN applySticky(isSticky, brandHeaderHeight)
       ELSE UNCHANGED <<isSticky, headerSticky, headerPosition, bodyPaddingTop>>
  /\ UNCHANGED <<stickyThreshold, brandHeaderHeight, indicatorOpacity, theadPosition>>

\* The callback handleScroll passes to its throttle.
StickyFrame ==
  /\ IF scrollY > stickyThreshold
       THEN applySticky(isSticky, brandHeaderHeight)
       ELSE removeSticky
  /\ UNCHANGED <<stickyThreshold, brandHeaderHeight, indicatorOpacity, theadPosition>>

\* updateScrollIndicators()
updateScrollIndicators ==
  LET isScrollable == NavGeometry.scrollWidth > NavGeometry.clientWidth
      maxScroll == NavGeometry.scrollWidth - NavGeometry.clientWidth
  IN indicatorOpacity' =
       IF isScrollable
         THEN [left |-> IF navScrollLeft > 10 THEN "1" ELSE "0",
               right |-> IF navScrollLeft < maxScroll - 10 THEN "1" ELSE "0"]
         ELSE [left |-> "0", right |-> "0"]

\* The callback of the comparison table's throttle.
TableFrame ==
  /\ theadPosition' = IF wrapperScrollTop > 0 THEN "sticky" ELSE theadPosition
  /\ UNCHANGED <<stickyVars, indicatorOpacity>>

\* The browser runs the oldest requested animation frame callback.  A throttled
\* callback clears its gate's flag after it ran; the frame initMobileNavScrollIndicators
\* requests directly has no gate.
AnimationFrame ==
  /\ rafQueue # <<>>
  /\ LET frame == Head(rafQueue)
     IN /\ rafQueue' = Tail(rafQueue)
        /\ CASE frame = "stickyHeader" -> StickyFrame
             [] frame = "comparisonTable" -> TableFrame
             [] OTHER -> updateScrollIndicators /\ UNCHANGED <<stickyVars, theadPosition>>
        /\ ticking' = IF frame \in Gates THEN [ticking EXCEPT ![frame] = FALSE] ELSE ticking
        /\ lastOp' = OpS("animationFrame", 0, <<frame>>)
  /\ UNCHANGED <<notWindow, envVars, geometryVars, resizeTimer, heroVars>>

loadAndPlay_noGuard ==
  /\ videoPreload' = "auto"
  /\ loadCalls' = loadCalls + 1
  /\ playCalls' = playCalls + 1

\* loadAndPlay()
loadAndPlay ==
  IF videoPreload # "none"
    THEN UNCHANGED <<videoPreload, loadCalls, playCalls>>
    ELSE /\ videoPreload' = "auto"
         /\ loadCalls' = loadCalls + 1
         /\ playCalls' = playCalls + 1

\* onInteraction()
onInteraction ==
  /\ heroTimer' = FALSE
  /\ heroListeners' = {}
  /\ loadAndPlay

\* The window dispatches `event` to the hero video's listener, if still registered.
HeroHears(event) ==
  IF event \in heroListeners
    THEN onInteraction
    ELSE UNCHANGED <<videoPreload, loadCalls, playCalls, heroTimer, heroListeners>>

\* Whether the hero video's listener for `event` is still registered.
HeroHeard(event) == IF event \in heroListeners THEN <<"heard">> ELSE <<>>

\* The 3 s timer of initHeroVideo fires.
HeroTimer ==
  /\ heroTimer
  /\ heroTimer' = FALSE
  /\ loadAndPlay
  /\ lastOp' = Op("heroTimer", 0)
  /\ UNCHANGED <<notWindow, envVars, geometryVars, stickyVars, gateVars, resizeTimer,
                 indicatorOpacity, theadPosition, preloadAtInit, heroListeners>>

\* scroll on window, to position y: handleScroll and the hero video's listener.
WindowScroll(y) ==
  /\ scrollY' = y
  /\ throttle("stickyHeader")
  /\ HeroHears("scroll")
  /\ lastOp' = OpS("windowScroll", loadCalls, HeroHeard("scroll"))
  /\ UNCHANGED <<notWindow, envVars, amazonHeight, brandHeight, navScrollLeft,
                 wrapperScrollTop, stickyVars, resizeTimer, indicatorOpacity,
                 theadPosition, preloadAtInit>>

\* mousemove, touchstart or keydown on window
WindowInteraction(event) ==
  /\ HeroHears(event)
  /\ lastOp' = OpS("windowInteraction", loadCalls, HeroHeard(event))
  /\ UNCHANGED <<notWindow, envVars, geometryVars, stickyVars, gateVars, resizeTimer,
                 indicatorOpacity, theadPosition, preloadAtInit>>

\* resize on window; the headers now measure a and h.  handleResize is debounced
\* (its timer restarts), the nav indicators' update is throttled.
WindowResize(a, h) ==
  /\ amazonHeight' = a
  /\ brandHeight' = h
  /\ resizeTimer' = TRUE
  /\ throttle("mobileNav")
  /\ lastOp' = Op("windowResize", 0)
  /\ UNCHANGED <<notWindow, envVars, scrollY, navScrollLeft, wrapperScrollTop, stickyVars,
                 indicatorOpacity, theadPosition, heroVars>>

ResizeTimer_keepPadding ==
  /\ resizeTimer
  /\ resizeTimer' = FALSE
  /\ stickyThreshold' = amazonHeight
  /\ brandHeaderHeight' = brandHeight
  /\ IF isSticky /\ scrollY > amazonHeight
       THEN UNCHANGED <<isSticky, headerSticky, headerPosition, bodyPaddingTop>>
       ELSE removeSticky
  /\ lastOp' = Op("resizeTimer", 0)
  /\ UNCHANGED <<notWindow, envVars, geometryVars, gateVars, indicatorOpacity,
                 theadPosition, heroVars>>

\* The debounce timer fires: the callback given to debounce by initStickyHeader.
ResizeTimer ==
  /\ resizeTimer
  /\ resizeTimer' = FALSE
  /\ stickyThreshold' = amazonHeight
  /\ brandHeaderHeight' = brandHeight
  /\ IF isSticky /\ scrollY > amazonHeight
       THEN \* removeSticky(), then applySticky() with the new height
            /\ bodyPaddingTop' = <<brandHeight, "px">>
            /\ UNCHANGED <<isSticky, headerSticky, headerPosition>>
       ELSE removeSticky
  /\ lastOp' = Op("resizeTimer", 0)
  /\ UNCHANGED <<notWindow, envVars, geometryVars, gateVars, indicatorOpacity,
                 theadPosition, heroVars>>

\* scroll on the nav container
NavScroll(left) ==
  /\ navScrollLeft' = left
  /\ throttle("mobileNav")
  /\ lastOp' = Op("navScroll", 0)
  /\ UNCHANGED <<notWindow, envVars, scrollY, amazonHeight, brandHeight, wrapperScrollTop,
                 stickyVars, resizeTimer, indicatorOpacity, theadPosition, heroVars>>

\* scroll on the comparison table's wrapper
WrapperScroll(top) ==
  /\ wrapperScrollTop' = top
  /\ throttle("comparisonTable")
  /\ lastOp' = Op("wrapperScroll", 0)
  /\ UNCHANGED <<notWindow, envVars, scrollY, amazonHeight, brandHeight, navScrollLeft,
                 stickyVars, resizeTimer, indicatorOpacity, theadPosition, heroVars>>

\* The page after init(), loaded at scroll position y with headers measuring a and
\* h: initStickyHeader has cached both and applied sticky if already scrolled past,
\* the nav indicators' first update waits for its frame, the thead is sticky, the
\* hero video's timer and listeners are set.
WindowAfterInit(y, a, h, preload) ==
  /\ scrollY = y
  /\ amazonHeight = a
  /\ brandHeight = h
  /\ stickyThreshold = a
  /\ brandHeaderHeight = h
  /\ isSticky = (y > a)
  /\ headerSticky = (y > a)
  /\ headerPosition = IF y > a THEN "fixed" ELSE ""
  /\ bodyPaddingTop = IF y > a THEN <<h, "px">> ELSE <<>>
  /\ ticking = [g \in Gates |-> FALSE]
  /\ rafQueue = <<"initialIndicators">>
  /\ resizeTimer = FALSE
  /\ navScrollLeft = 0
  /\ indicatorOpacity = [left |-> "0", right |-> "0"]
  /\ wrapperScrollTop = 0
  /\ theadPosition = "sticky"
  /\ preloadAtInit = preload
  /\ videoPreload = preload
  /\ loadCalls = 0
  /\ playCalls = 0
  /\ heroTimer = TRUE
  /\ heroListeners = InteractionEvents

\* ------------------------------------------------------------------------
\* initFrequentlyBoughtTogether: the price calculator
\* ------------------------------------------------------------------------

\* Text is a sequence of characters.  Amounts are counted in cents: the labels
\* carry prices with at most two decimals, and sums of a few such prices are far
\* from where a double would round to another cent.
DigitChars == <<"0", "1", "2", "3", "4", "5", "6", "7", "8", "9">>

DigitSet == Range(DigitChars)

DigitValue(c) == (CHOOSE d \in 1 .. 10 : DigitChars[d] = c) - 1

\* Not a number: parseFloat of text that does not start with a number.
NaN == -1

\* The checkboxes, by index.
Boxes == 0 .. (NCheckboxes - 1)

\* Length of the longest run of characters of `allowed` in s from position j.
RECURSIVE RunLen(_, _, _)
RunLen(s, j, allowed) ==
  IF j > Len(s) \/ s[j] \notin allowed THEN 0 ELSE 1 + RunLen(s, j + 1, allowed)

\* The decimal number written by a run of digits (0 for the empty run).
RECURSIVE IntOf(_)
IntOf(s) ==
  IF s = <<>> THEN 0 ELSE IntOf(SubSeq(s, 1, Len(s) - 1)) * 10 + DigitValue(s[Len(s)])

\* text.match(/\$([0-9,]+\.?\d*)/): group 1 of the leftmost match, <<"none">> for null.
PriceMatch(text) ==
  LET starts == {i \in 1 .. (Len(text) - 1) :
                   text[i] = "$" /\ text[i + 1] \in DigitSet \cup {","}}
  IN IF starts = {}
       THEN <<"none">>
       ELSE LET a == (CHOOSE i \in starts : \A k \in starts : i <= k) + 1
                b == a + RunLen(text, a, DigitSet \cup {","})
                c == IF b <= Len(text) /\ text[b] = "." THEN b + 1 ELSE b
            IN SubSeq(text, a, c + RunLen(text, c, DigitSet) - 1)

\* s.replace(',', ''): only the first comma goes.
ReplaceFirstComma(s) ==
  LET at == {i \in 1 .. Len(s) : s[i] = ","}
  IN IF at = {}
       THEN s
       ELSE LET i == CHOOSE j \in at : \A k \in at : j <= k
            IN SubSeq(s, 1, i - 1) \o SubSeq(s, i + 1, Len(s))

\* parseFloat(s) for unsigned text: the longest leading digits[.digits], in cents.
ParseFloat(s) ==
  LET n == RunLen(s, 1, DigitSet)
      dot == n + 1 <= Len(s) /\ s[n + 1] = "."
      m == IF dot THEN RunLen(s, n + 2, DigitSet) ELSE 0
  IN IF n + m = 0
       THEN NaN
       ELSE IntOf(SubSeq(s, 1, n)) * 100
            + (IF m >= 1 THEN DigitValue(s[n + 2]) * 10 ELSE 0)
            + (IF m >= 2 THEN DigitValue(s[n + 3]) ELSE 0)

\* The price pushed for one label.
ExtractPrice(text) ==
  LET match == PriceMatch(text)
  IN IF match = <<"none">> THEN 0 ELSE ParseFloat(ReplaceFirstComma(match))

\* a + b of two numbers
Add(a, b) == IF a = NaN \/ b = NaN THEN NaN ELSE a + b

RECURSIVE Total_allBoxes(_, _, _)
Total_allBoxes(p, checked, n) ==
  IF n = 0 THEN 0 ELSE Add(Total_allBoxes(p, checked, n - 1), p[n - 1])

\* total after the loop of updateFBT over checkboxes 0 .. n-1
RECURSIVE Total(_, _, _)
Total(p, checked, n) ==
  IF n = 0
    THEN 0
    ELSE LET before == Total(p, checked, n - 1)
         IN IF checked[n - 1] THEN Add(before, p[n - 1]) ELSE before

\* The decimal digits of a natural number.
RECURSIVE Digits(_)
Digits(n) ==
  IF n < 10 THEN <<DigitChars[n + 1]>> ELSE Digits(n \div 10) \o <<DigitChars[(n % 10) + 1]>>

\* total.toFixed(2)
ToFixed2(total) ==
  IF total = NaN
    THEN <<"N", "a", "N">>
    ELSE Digits(total \div 100)
         \o <<".", DigitChars[((total % 100) \div 10) + 1], DigitChars[(total % 10) + 1]>>

IsWordChar(c) == c \in DigitSet \cup {"N", "a"}

\* s.replace(/\B(?=(\d{3})+(?!\d))/g, ','), from position i on: a comma goes after
\* s[i] where no word boundary lies and a multiple of three digits follows.
RECURSIVE WithCommas(_, _)
WithCommas(s, i) ==
  IF i > Len(s)
    THEN <<>>
    ELSE LET run == RunLen(s, i + 1, DigitSet)
             matches == /\ i < Len(s)
                        /\ IsWordChar(s[i]) = IsWordChar(s[i + 1])
                        /\ run > 0
                        /\ run % 3 = 0
         IN <<s[i]>> \o (IF matches THEN <<",">> ELSE <<>>) \o WithCommas(s, i + 1)

\* What updateFBT() writes for the given checkbox states.
FBTView(p, checked) ==
  LET checkedCount == Cardinality({i \in Boxes : checked[i]})
  IN [total |-> <<"$">> \o WithCommas(ToFixed2(Total(p, checked, NCheckboxes)), 1),
      products |-> [i \in Boxes |-> IF checked[i] THEN "1" ELSE "0.4"],
      plus |-> [j \in 0 .. (NCheckboxes - 2) |->
                  IF checked[j] /\ checked[j + 1] THEN "1" ELSE "0.3"],
      button |-> IF checkedCount = 0
                   THEN [text |-> <<"Select items to add">>, disabled |-> TRUE]
                   ELSE [text |-> IF checkedCount = NCheckboxes
                                    THEN <<"Add all ", NCheckboxes, " to Cart">>
                                    ELSE <<"Add ", checkedCount, " to Cart">>,
                         disabled |-> FALSE]]

\* updateFBT(), with the checkboxes as they are after the step
updateFBT ==
  LET view == FBTView(prices, fbtChecked')
  IN /\ totalText' = view.total
     /\ productOpacity' = view.products
     /\ plusOpacity' = view.plus
     /\ addToCartBtn' = view.button

\* change on checkbox i: the user checked or unchecked it.
CheckboxChange(i) ==
  /\ fbtChecked' = [fbtChecked EXCEPT ![i] = ~fbtChecked[i]]
  /\ updateFBT
  /\ lastOp' = Op("checkboxChange", i)
  /\ UNCHANGED <<notFBT, envVars, fbtLabels, prices>>

\* The page after initFrequentlyBoughtTogether, with the given label texts and
\* checkbox states in the HTML: prices extracted, updateFBT() called once.
FBTAfterInit(labels, checked) ==
  /\ fbtLabels = labels
  /\ prices = [i \in Boxes |-> ExtractPrice(labels[i])]
  /\ fbtChecked = checked
  /\ LET view == FBTView([i \in Boxes |-> ExtractPrice(labels[i])], checked)
     IN /\ totalText = view.total
        /\ productOpacity = view.products
        /\ plusOpacity = view.plus
        /\ addToCartBtn = view.button

\* A page whose labels carry no price, all checked.
PlainFBT == FBTAfterInit([i \in Boxes |-> <<>>], [i \in Boxes |-> TRUE])

\* ------------------------------------------------------------------------
\* Click listeners on buttons: initCartCounter, the "See options" buttons of
\* initComparisonTable, initButtonRippleEffect
\* ------------------------------------------------------------------------

\* The buttons of the page, by what the selectors look at.  place: "productCard" is
\* a .btn--amazon inside a .product-card, "fbtPricing" a .btn--amazon child of
\* .fbt-pricing, "lastRow" the index-th .btn--amazon of the comparison table's last
\* row (the table is not part of a product card), "elsewhere" any other button.
\* ripple: the button has one of the classes .btn--modern, .btn--gradient,
\* .btn--outline-dark, .btn--outline-light.
Buttons ==
  [place : {"productCard", "fbtPricing", "elsewhere"}, index : {0}, ripple : BOOLEAN]
    \cup [place : {"lastRow"}, index : 0 .. (NLastRow - 1), ripple : BOOLEAN]

optionButtons_allAmazon(button) == button.place # "elsewhere"

\* '.product-card .btn--amazon, .fbt-pricing > .btn--amazon' matches the button.
optionButtons(button) == button.place \in {"productCard", "fbtPricing"}

\* scrollTargets: one resolver for each of the first four buttons of the last row
NScrollTargets == 4

\* The button has the click listener of the seeOptionsButtons.forEach.
seeOptionsButtons(button) == button.place = "lastRow" /\ button.index < NScrollTargets

\* The click listener initCartCounter gives each of optionButtons.
CartClick ==
  /\ currentCount' = currentCount + 1
  /\ cartCountText' = currentCount + 1
  /\ cartCountStyle' = IF prefersReducedMotion
                         THEN [cartCountStyle EXCEPT !.color = "#ff9900"]
                         ELSE [color |-> "#ff9900", transform |-> "scale(1.15)"]
  /\ cartTimers' = Append(cartTimers, IF prefersReducedMotion THEN "color" ELSE "bounce")

\* click on a button: every click listener registered on it runs.  The listener of a
\* "See options" button prevents the default, stops the propagation and scrolls to
\* its target; the scrolling arrives as scroll events.
ButtonClick(button) ==
  /\ IF optionButtons(button)
       THEN /\ currentCount < MaxCount
            /\ Len(cartTimers) < MaxPending
            /\ CartClick
       ELSE UNCHANGED cartVars
  /\ IF rippleListeners /\ button.ripple
       THEN /\ ripples < MaxPending
            /\ ripples' = ripples + 1
       ELSE UNCHANGED ripples
  /\ lastOp' = OpS("buttonClick", button.index,
                   <<button.place, IF button.ripple THEN "ripple" ELSE "plain">>)
  /\ UNCHANGED <<notButtons, envVars, rippleListeners>>

\* A timeout of the cart count's animation fires (CART_ANIMATION_DURATION after its click).
CartTimer ==
  /\ cartTimers # <<>>
  /\ cartTimers' = Tail(cartTimers)
  /\ cartCountStyle' = IF Head(cartTimers) = "color"
                         THEN [cartCountStyle EXCEPT !.color = ""]
                         ELSE [color |-> "", transform |-> "scale(1)"]
  /\ lastOp' = Op("cartTimer", 0)
  /\ UNCHANGED <<notButtons, envVars, currentCount, cartCountText, rippleListeners, ripples>>

\* setTimeout(() => ripple.remove(), 600) of the oldest ripple fires.
RippleTimer ==
  /\ ripples > 0
  /\ ripples' = ripples - 1
  /\ lastOp' = Op("rippleTimer", 0)
  /\ UNCHANGED <<notButtons, envVars, cartVars, rippleListeners>>

\* The page after init(): the cart count shows `count`; initButtonRippleEffect has
\* registered its listeners unless motion was reduced then.
ButtonsAfterInit(count, reducedAtInit) ==
  /\ currentCount = count
  /\ cartCountText = count
  /\ cartCountStyle = [color |-> "", transform |-> ""]
  /\ cartTimers = <<>>
  /\ rippleListeners = ~reducedAtInit
  /\ ripples = 0

PlainButtons == ButtonsAfterInit(0, prefersReducedMotion)

\* ------------------------------------------------------------------------
\* initScrollAnimations: the grid-aware stagger delays of the read pass
\* ------------------------------------------------------------------------

\* a % n of JavaScript: the remainder has the sign of a.
JsRem(a, n) == IF a >= 0 THEN a % n ELSE 0 - ((0 - a) % n)

\* A child of the parent: whether animatedElements holds it, and whether its
\* computed display is other than 'none'.
ChildKinds == [animated : BOOLEAN, shown : BOOLEAN]

\* The sequences of at most n children.
RECURSIVE ChildSeqs(_)
ChildSeqs(n) ==
  IF n = 0
    THEN {<<>>}
    ELSE LET shorter == ChildSeqs(n - 1)
         IN shorter \cup {Append(q, x) : q \in shorter, x \in ChildKinds}

\* A parent: whether it carries one of the six grid classes, the number of
\* space-separated parts of its computed grid-template-columns (0: the empty
\* string), and its children in document order.
Grids == [listed : BOOLEAN, tracks : 0 .. MaxCols, children : ChildSeqs(MaxChildren)]

\* siblings.indexOf(element) for the k-th child: its position among the children
\* that are not display:none, -1 if it is not among them.
siblingIndex(g, k) ==
  IF g.children[k].shown
    THEN Cardinality({j \in 1 .. (k - 1) : g.children[j].shown})
    ELSE -1

\* colString ? colString.split(' ').length : 3
staggerGridCols(g) == IF g.tracks = 0 THEN 3 ELSE g.tracks

\* siblingIndex % gridCols
columnIndex(g, k) == JsRem(siblingIndex(g, k), staggerGridCols(g))

\* The read pass: the animation frame callback initScrollAnimations requests.
\* columnIndex * 0.08 s is columnIndex * 8 hundredths of a second.
StaggerFrame ==
  /\ staggerPending
  /\ staggerPending' = FALSE
  /\ transitionDelay' =
       [k \in DOMAIN grid.children |->
          IF grid.children[k].animated /\ grid.listed
            THEN <<columnIndex(grid, k) * 8>>
            ELSE transitionDelay[k]]
  /\ lastOp' = Op("staggerFrame", 0)
  /\ UNCHANGED <<notStagger, envVars, grid>>

\* The page after initScrollAnimations on parent g: the frame is requested unless
\* no element is animated or reduced motion is preferred.
GridAfterInit(g, reduced) ==
  /\ grid = g
  /\ transitionDelay = [k \in DOMAIN g.children |-> <<>>]
  /\ staggerPending = (~reduced /\ \E k \in DOMAIN g.children : g.children[k].animated)

\* A page without such a parent.
PlainGrid == GridAfterInit([listed |-> FALSE, tracks |-> 0, children |-> <<>>], TRUE)

\* ------------------------------------------------------------------------
\* init() and the init* functions: what each registers and writes, given what its
\* queries find
\* ------------------------------------------------------------------------

\* The calls of init(), in order.
InitFunctions ==
  <<"initTabNavigation", "initDropdownNavigation", "initProductToggles",
    "initScrollAnimations", "initStickyHeader", "initBackToTop", "initCartCounter",
    "initTestimonialCarousel", "initVideoThumbnails", "initCategoryTiles",
    "initMobileNavScrollIndicators", "initImageErrorHandling", "initLazyLoading",
    "initButtonHoverPolish", "initButtonRippleEffect", "initHeroVideo",
    "initComparisonTable", "initFrequentlyBoughtTogether",
    "initProductCardEnhancements">>

NInit == Len(InitFunctions)

Found == 0 .. MaxFound

\* What one call did: event listeners added, timers and intervals started, animation
\* frames requested, observers created, writes to elements (attributes, classes,
\* styles, children), writes to module state.
Did(l, t, f, o, d, m) ==
  [listeners |-> l, timers |-> t, frames |-> f, observers |-> o, domWrites |-> d,
   stateWrites |-> m]

Nothing == Did(0, 0, 0, 0, 0, 0)

Count(b) == IF b THEN 1 ELSE 0

\* q.tabs tabs, q.container the tablist container, q.activates whether
\* setInitialActiveTab finds a tab for the visible section.
initTabNavigation(q) ==
  IF q.tabs = 0
    THEN Nothing
    ELSE Did(2 * q.tabs, 1, 0, 1,
             Count(q.container) + 2 * q.tabs + Count(q.activates) * (3 * q.tabs + 3),
             1)

\* q.wrappers dropdown wrappers, q.complete of them with both a tab and a dropdown,
\* each with q.links links.
initDropdownNavigation(q) ==
  IF q.wrappers = 0
    THEN Nothing
    ELSE Did(q.complete * (2 + 2 * q.links) + 2, 0, 0, 0, 2 * q.complete, 0)

\* One toggleConfig: its button and its container.
ToggleSetup(c) ==
  IF ~c.button \/ ~c.container THEN Nothing ELSE Did(1, 0, 0, 0, 2, 0)

Plus(a, b) ==
  Did(a.listeners + b.listeners, a.timers + b.timers, a.frames + b.frames,
      a.observers + b.observers, a.domWrites + b.domWrites,
      a.stateWrites + b.stateWrites)

initProductToggles(q) == Plus(ToggleSetup(q.tz), ToggleSetup(q.nsa))

initScrollAnimations(q) ==
  IF q.elements = 0
    THEN Nothing
    ELSE IF q.reducedMotion
           THEN Did(0, 0, 0, 0, 2 * q.elements, 0)
           ELSE Did(0, 0, 2, 1, q.elements, 1)

\* q.scrolled: window.scrollY > stickyThreshold at init, so applySticky runs.
initStickyHeader(q) ==
  IF ~q.brandHeader \/ ~q.amazonHeader
    THEN Nothing
    ELSE Did(2, 0, 0, 0, Count(q.scrolled) * 8, 0)

initBackToTop(q) ==
  IF ~q.link THEN Nothing ELSE Did(1, 0, 0, 0, 0, 0)

initCartCounter(q) ==
  IF ~q.cartCount \/ q.buttons = 0
    THEN Nothing
    ELSE Did(q.buttons, 0, 0, 0, 2, 0)

initTestimonialCarousel(q) ==
  IF q.dots = 0
    THEN Nothing
    ELSE Did(2 * q.dots + Count(q.section) * 4,
             Count(~q.reducedMotion), 0, 0,
             Count(q.container) * 2 + 3 * q.dots,
             Count(~q.reducedMotion))

initVideoThumbnails(q) ==
  IF q.thumbnails = 0 \/ ~q.iframe
    THEN Nothing
    ELSE Did(1 + 2 * q.thumbnails, 0, 0, 0,
             Count(q.wrapper) * 2 + 3 * q.thumbnails, 0)

\* q.tiles tiles; the first six have a categoryMapping entry and get an aria-label.
initCategoryTiles(q) ==
  IF q.tiles = 0
    THEN Nothing
    ELSE Did(2 * q.tiles, 0, 0, 0,
             2 * q.tiles + (IF q.tiles < 6 THEN q.tiles ELSE 6)
               + Count(~q.reducedMotion) * q.tiles,
             0)

initMobileNavScrollIndicators(q) ==
  IF ~q.brandNav
    THEN Nothing
    ELSE IF ~q.container
           THEN Nothing
           ELSE Did(2, 0, 1, 0, 3, 0)

\* q.pending: images not yet loaded; each gets an error listener.
initImageErrorHandling(q) == Did(q.pending, 0, 0, 0, 0, 0)

\* The images (by index, from 0) that get loading="lazy".
LazyImages(n) == {index \in 0 .. (n - 1) : index > 3}

initLazyLoading(q) == Did(0, 0, 0, 0, Cardinality(LazyImages(q.images)), 0)

\* q.plain: buttons whose computed transition is empty, 'none' or 'all 0s ease 0s'.
initButtonHoverPolish(q) ==
  IF q.reducedMotion THEN Nothing ELSE Did(0, 0, 0, 0, q.plain, 0)

initButtonRippleEffect(q) ==
  IF q.reducedMotion
    THEN Nothing
    ELSE IF q.buttons = 0
           THEN Nothing
           ELSE Did(q.buttons, 0, 0, 0, Count(~q.styled), 0)

initHeroVideo(q) ==
  IF ~q.video THEN Nothing ELSE Did(4, 1, 0, 0, 0, 0)

initComparisonTable_tableOnly(q) ==
  IF ~q.table
    THEN Nothing
    ELSE Did(2 * q.cells + Count(q.wrapper) + Count(q.lastRow) * q.seeOptions,
             0, 0, 0, Count(q.wrapper) * 3, 0)

\* q.cells: cells beyond column 0, over all rows; q.seeOptions: .btn--amazon buttons
\* of the last row, at most four of which have a scroll target.
initComparisonTable(q) ==
  IF ~q.table
    THEN Nothing
    ELSE IF ~q.thead \/ ~q.tbody
           THEN Nothing
           ELSE Did(2 * q.cells + Count(q.wrapper) + Count(q.lastRow) * q.seeOptions,
                    0, 0, 0, Count(q.wrapper) * 3, 0)

\* updateFBT() at the end writes three styles per product with a checkbox, one per
\* plus sign, the total and four properties of the button.
initFrequentlyBoughtTogether(q) ==
  IF ~q.container
    THEN Nothing
    ELSE IF q.checkboxes = 0 \/ ~q.price \/ ~q.button
           THEN Nothing
           ELSE Did(q.checkboxes, 0, 0, 0, 3 * q.checkboxes + q.plusSigns + 5, 0)

\* q.cards: product cards with an image.
initProductCardEnhancements(q) ==
  IF q.reducedMotion
    THEN Nothing
    ELSE IF q.cards = 0 THEN Nothing ELSE Did(2 * q.cards, 0, 0, 0, 0, 0)

\* What the queries of each init* function can find.
ToggleParts == [button : BOOLEAN, container : BOOLEAN]

Queries(fn) ==
  CASE fn = "initTabNavigation" ->
         [tabs : Found, container : BOOLEAN, activates : BOOLEAN]
    [] fn = "initDropdownNavigation" ->
         {q \in [wrappers : Found, complete : Found, links : 0 .. 1] :
            q.complete <= q.wrappers}
    [] fn = "initProductToggles" -> [tz : ToggleParts, nsa : ToggleParts]
    [] fn = "initScrollAnimations" -> [elements : Found, reducedMotion : {prefersReducedMotion}]
    [] fn = "initStickyHeader" ->
         [brandHeader : BOOLEAN, amazonHeader : BOOLEAN, scrolled : BOOLEAN]
    [] fn = "initBackToTop" -> [link : BOOLEAN]
    [] fn = "initCartCounter" -> [cartCount : BOOLEAN, buttons : Found]
    [] fn = "initTestimonialCarousel" ->
         [dots : Found, container : BOOLEAN, section : BOOLEAN,
          reducedMotion : {prefersReducedMotion}]
    [] fn = "initVideoThumbnails" -> [thumbnails : Found, iframe : BOOLEAN, wrapper : BOOLEAN]
    [] fn = "initCategoryTiles" -> [tiles : Found, reducedMotion : {prefersReducedMotion}]
    [] fn = "initMobileNavScrollIndicators" -> [brandNav : BOOLEAN, container : BOOLEAN]
    [] fn = "initImageErrorHandling" -> [pending : Found]
    [] fn = "initLazyLoading" -> [images : 0 .. MaxImages]
    [] fn = "initButtonHoverPolish" -> [plain : Found, reducedMotion : {prefersReducedMotion}]
    [] fn = "initButtonRippleEffect" ->
         [buttons : Found, styled : BOOLEAN, reducedMotion : {prefersReducedMotion}]
    [] fn = "initHeroVideo" -> [video : BOOLEAN]
    [] fn = "initComparisonTable" ->
         [table : BOOLEAN, thead : BOOLEAN, tbody : BOOLEAN, wrapper : BOOLEAN,
          lastRow : BOOLEAN, cells : Found, seeOptions : Found]
    [] fn = "initFrequentlyBoughtTogether" ->
         [container : BOOLEAN, checkboxes : Found, price : BOOLEAN, button : BOOLEAN,
          plusSigns : 0 .. 1]
    [] fn = "initProductCardEnhancements" -> [cards : Found, reducedMotion : {prefersReducedMotion}]

Effects(fn, q) ==
  CASE fn = "initTabNavigation" -> initTabNavigation(q)
    [] fn = "initDropdownNavigation" -> initDropdownNavigation(q)
    [] fn = "initProductToggles" -> initProductToggles(q)
    [] fn = "initScrollAnimations" -> initScrollAnimations(q)
    [] fn = "initStickyHeader" -> initStickyHeader(q)
    [] fn = "initBackToTop" -> initBackToTop(q)
    [] fn = "initCartCounter" -> initCartCounter(q)
    [] fn = "initTestimonialCarousel" -> initTestimonialCarousel(q)
    [] fn = "initVideoThumbnails" -> initVideoThumbnails(q)
    [] fn = "initCategoryTiles" -> initCategoryTiles(q)
    [] fn = "initMobileNavScrollIndicators" -> initMobileNavScrollIndicators(q)
    [] fn = "initImageErrorHandling" -> initImageErrorHandling(q)
    [] fn = "initLazyLoading" -> initLazyLoading(q)
    [] fn = "initButtonHoverPolish" -> initButtonHoverPolish(q)
    [] fn = "initButtonRippleEffect" -> initButtonRippleEffect(q)
    [] fn = "initHeroVideo" -> initHeroVideo(q)
    [] fn = "initComparisonTable" -> initComparisonTable(q)
    [] fn = "initFrequentlyBoughtTogether" -> initFrequentlyBoughtTogether(q)
    [] fn = "initProductCardEnhancements" -> initProductCardEnhancements(q)

NoInit == [fn |-> "none", found |-> <<>>, did |-> Nothing]

\* init() is entered: its first call is next.
StartInit ==
  /\ initCalls' = initCalls + 1
  /\ initPc' = 1

Running == initPc # 0

\* The tail of the IIFE with both branches taken: the listener and the direct call.
Evaluate_noElse ==
  /\ dclListener' = TRUE
  /\ StartInit

\* The tail of the IIFE: init runs now, or on DOMContentLoaded while still loading.
Evaluate ==
  IF readyState = "loading"
    THEN /\ dclListener' = TRUE
         /\ UNCHANGED <<initPc, initCalls>>
    ELSE /\ StartInit
         /\ UNCHANGED dclListener

\* The browser evaluates the script (once per page load).
EvaluateScript ==
  /\ ~evaluated
  /\ ~Running
  /\ initCalls < MaxInitCalls
  /\ evaluated' = TRUE
  /\ evaluatedAt' = readyState
  /\ Evaluate
  /\ lastOp' = Op("evaluate", 0)
  /\ UNCHANGED <<notLoad, envVars, readyState, dclFired, initRuns, lastInit>>

\* The parser reaches the end of the document.
ParsingEnds ==
  /\ ~Running
  /\ readyState = "loading"
  /\ readyState' = "interactive"
  /\ lastOp' = Op("parsingEnds", 0)
  /\ UNCHANGED <<notLoad, envVars, evaluated, evaluatedAt, dclListener, dclFired, initPc,
                 initCalls, initRuns, lastInit>>

\* DOMContentLoaded is dispatched once; a registered init is called.
DOMContentLoaded ==
  /\ ~Running
  /\ readyState = "interactive"
  /\ ~dclFired
  /\ initCalls < MaxInitCalls
  /\ dclFired' = TRUE
  /\ IF dclListener THEN StartInit ELSE UNCHANGED <<initPc, initCalls>>
  /\ lastOp' = Op("DOMContentLoaded", 0)
  /\ UNCHANGED <<notLoad, envVars, readyState, evaluated, evaluatedAt, dclListener, initRuns,
                 lastInit>>

\* The load event: the document is complete.
PageLoaded ==
  /\ ~Running
  /\ readyState = "interactive"
  /\ dclFired
  /\ readyState' = "complete"
  /\ lastOp' = Op("load", 0)
  /\ UNCHANGED <<notLoad, envVars, evaluated, evaluatedAt, dclListener, dclFired, initPc,
                 initCalls, initRuns, lastInit>>

\* The next call of init(): one init* function, run to its end.
InitStep ==
  /\ Running
  /\ LET fn == InitFunctions[initPc]
     IN /\ \E q \in Queries(fn) :
             lastInit' = [fn |-> fn, found |-> q, did |-> Effects(fn, q)]
        /\ initRuns' = [initRuns EXCEPT ![fn] = @ + 1]
  /\ initPc' = IF initPc = NInit THEN 0 ELSE initPc + 1
  /\ lastOp' = Op("initStep", initPc)
  /\ UNCHANGED <<notLoad, envVars, readyState, evaluated, evaluatedAt, dclListener, dclFired,
                 initCalls>>

\* The page after its load: init() has run once and returned.
LoadedPage ==
  /\ readyState = "complete"
  /\ evaluated = TRUE
  /\ evaluatedAt = "interactive"
  /\ dclListener = FALSE
  /\ dclFired = TRUE
  /\ initPc = 0
  /\ initCalls = 1
  /\ initRuns = [fn \in Range(InitFunctions) |-> 1]
  /\ lastInit = NoInit

\* The page as the browser starts to parse it, before the script is evaluated.
InitLoad ==
  /\ prefersReducedMotion \in BOOLEAN
  /\ lastOp = Op("navigate", 0)
  /\ observers = <<>>
  /\ connected = {}
  /\ revealObserved = {}
  /\ elVisible = {}
  /\ currentTestimonialIndex = 0
  /\ testimonialInterval = 0
  /\ liveIntervals = {}
  /\ touchStartX = 0
  /\ touchEndX = 0
  /\ dotActive = {}
  /\ dotAria = [i \in Dots |-> "unset"]
  /\ dotTabindex = [i \in Dots |-> "unset"]
  /\ tabSection = [t \in Tabs |-> "none"]
  /\ tabActive = {}
  /\ tabAria = [t \in Tabs |-> "unset"]
  /\ tabTabindex = [t \in Tabs |-> "unset"]
  /\ initialTabTimer = FALSE
  /\ focusedTab = NoTab
  /\ readyState = "loading"
  /\ evaluated = FALSE
  /\ evaluatedAt = ""
  /\ dclListener = FALSE
  /\ dclFired = FALSE
  /\ initPc = 0
  /\ initCalls = 0
  /\ initRuns = [fn \in Range(InitFunctions) |-> 0]
  /\ lastInit = NoInit
  /\ TogglesAfterInit([b \in Toggles |-> 0])
  /\ WindowAfterInit(0, 1, 1, "none")
  /\ PlainFBT
  /\ PlainButtons
  /\ PlainGrid

NextLoad ==
  \/ EvaluateScript
  \/ ParsingEnds
  \/ DOMContentLoaded
  \/ PageLoaded
  \/ InitStep

SpecLoad == InitLoad /\ [][NextLoad]_vars

\* The browser ends parsing, dispatches its events and evaluates the script; a call
\* of init() runs to its end.
FairLoad == SpecLoad /\ WF_vars(NextLoad)

\* Tab attributes after the forEach of initTabNavigation: the HTML marks the tabs of
\* htmlActive active; an active tab gets tabindex 0, or the first tab does when none is.
TabSetup(htmlActive) ==
  [active |-> htmlActive,
   aria |-> [t \in Tabs |-> "unset"],
   tabindex |-> [t \in Tabs |->
                   IF t \in htmlActive \/ (t = 0 /\ htmlActive = {}) THEN "0" ELSE "-1"]]

\* The state initTabNavigation returns in: the setup, then the first, synchronous
\* call of setInitialActiveTab, with the 100 ms timer for the second one pending.
TabsAfterInit(htmlActive, visible) ==
  LET after == AfterEntries(visible, TabSetup(htmlActive))
  IN /\ tabActive = after.active
     /\ tabAria = after.aria
     /\ tabTabindex = after.tabindex
     /\ initialTabTimer = TRUE
     /\ focusedTab = NoTab

\* ------------------------------------------------------------------------
\* Specification of the carousel with the observers and cleanup
\* ------------------------------------------------------------------------

\* The state after init() on a page with dots, a testimonial section and animated
\* elements.  The HTML may mark one dot active; initScrollAnimations creates no
\* observer under reduced motion; resetInterval() has run once.
InitCarousel ==
  /\ prefersReducedMotion \in BOOLEAN
  /\ lastOp = Op("init", 0)
  /\ observers = IF prefersReducedMotion THEN <<"section">> ELSE <<"section", "reveal">>
  /\ connected = Range(observers)
  /\ revealObserved = IF prefersReducedMotion THEN {} ELSE Animated
  /\ elVisible = {}
  /\ currentTestimonialIndex = 0
  /\ testimonialInterval = IF prefersReducedMotion THEN 0 ELSE 1
  /\ liveIntervals = IF prefersReducedMotion THEN {} ELSE {1}
  /\ touchStartX = 0
  /\ touchEndX = 0
  /\ dotActive \in {{}} \cup {{i} : i \in Dots}
  /\ dotAria = [i \in Dots |-> "unset"]
  /\ dotTabindex = [i \in Dots |-> IF i = 0 THEN "0" ELSE "-1"]
  /\ tabSection = [t \in Tabs |-> IF t = 0 THEN "firewalls" ELSE "none"]
  /\ TabsAfterInit({}, <<>>)
  /\ LoadedPage
  /\ TogglesAfterInit([b \in Toggles |-> 0])
  /\ WindowAfterInit(0, 1, 1, "none")
  /\ PlainFBT
  /\ PlainButtons
  /\ PlainGrid

NextCarousel ==
  \/ \E b \in BOOLEAN : MotionChange(b) /\ UNCHANGED <<observerVars, carouselVars, tabVars, loadVars, toggleVars, windowVars, fbtVars, buttonVars, staggerVars>>
  \/ \E i \in Dots : DotClick(i)
  \/ \E i \in Dots, k \in Keys : DotKeydown(i, k)
  \/ \E x \in TouchXs : TouchStart(x)
  \/ \E x \in TouchXs : TouchEnd(x)
  \/ MouseEnter
  \/ MouseLeave
  \/ IntervalTick
  \/ \E e \in Animated : RevealCallback(e)
  \/ \E entries \in SectionSeqs(1) \ {<<>>} : SectionCallback(entries)
  \/ BeforeUnload

SpecCarousel == InitCarousel /\ [][NextCarousel]_vars

\* ------------------------------------------------------------------------
\* Specification of the tab navigation
\* ------------------------------------------------------------------------

InitTabs ==
  /\ prefersReducedMotion \in BOOLEAN
  /\ lastOp = Op("init", 0)
  /\ observers = <<"section">>
  /\ connected = {"section"}
  /\ revealObserved = {}
  /\ elVisible = {}
  /\ currentTestimonialIndex = 0
  /\ testimonialInterval = 0
  /\ liveIntervals = {}
  /\ touchStartX = 0
  /\ touchEndX = 0
  /\ dotActive = {}
  /\ dotAria = [i \in Dots |-> "unset"]
  /\ dotTabindex = [i \in Dots |-> IF i = 0 THEN "0" ELSE "-1"]
  /\ tabSection \in TabLayouts
  /\ \E htmlActive \in {{}} \cup {{t} : t \in Tabs}, visible \in SectionSeqs(1) :
       TabsAfterInit(htmlActive, visible)
  /\ LoadedPage
  /\ TogglesAfterInit([b \in Toggles |-> 0])
  /\ WindowAfterInit(0, 1, 1, "none")
  /\ PlainFBT
  /\ PlainButtons
  /\ PlainGrid

NextTabs ==
  \/ \E t \in Tabs, leaves \in BOOLEAN : TabClick(t, leaves)
  \/ \E t \in Tabs, k \in Keys : TabKeydown(t, k)
  \/ \E t \in Tabs : FocusTab(t)
  \/ BlurTab
  \/ \E entries \in EntryLists(MaxEntries) : SectionCallback(entries)
  \/ \E visible \in SectionSeqs(1) : InitialTabTimer(visible)
  \/ \E i \in Tiles : TileClick(i)
  \/ \E i \in Tiles, k \in {"Enter", " ", "Tab"} : TileKeydown(i, k)

SpecTabs == InitTabs /\ [][NextTabs]_vars

\* ------------------------------------------------------------------------
\* Specification of the product toggles
\* ------------------------------------------------------------------------

InitToggles ==
  /\ prefersReducedMotion \in BOOLEAN
  /\ lastOp = Op("init", 0)
  /\ observers = <<>>
  /\ connected = {}
  /\ revealObserved = {}
  /\ elVisible = {}
  /\ currentTestimonialIndex = 0
  /\ testimonialInterval = 0
  /\ liveIntervals = {}
  /\ touchStartX = 0
  /\ touchEndX = 0
  /\ dotActive = {}
  /\ dotAria = [i \in Dots |-> "unset"]
  /\ dotTabindex = [i \in Dots |-> "unset"]
  /\ tabSection = [t \in Tabs |-> "none"]
  /\ tabActive = {}
  /\ tabAria = [t \in Tabs |-> "unset"]
  /\ tabTabindex = [t \in Tabs |-> "unset"]
  /\ initialTabTimer = FALSE
  /\ focusedTab = NoTab
  /\ LoadedPage
  /\ \E count \in [Toggles -> 0 .. MaxCards] :
       /\ count["tz-see-more"] + count["nsa-see-more"] <= MaxCards
       /\ TogglesAfterInit(count)
  /\ WindowAfterInit(0, 1, 1, "none")
  /\ PlainFBT
  /\ PlainButtons
  /\ PlainGrid

MotionChangeToggles ==
  \E b \in BOOLEAN :
    MotionChange(b) /\ UNCHANGED <<observerVars, carouselVars, tabVars, loadVars, toggleVars, windowVars, fbtVars, buttonVars, staggerVars>>

NextToggles ==
  \/ \E b \in Toggles : \E gridCols \in GridCols(b) : ToggleClick(b, gridCols)
  \/ \E b \in Toggles : ToggleTimer(b)
  \/ MotionChangeToggles

SpecToggles == InitToggles /\ [][NextToggles]_vars

\* The browser runs every timer that is due.
FairToggles == SpecToggles /\ \A b \in Toggles : WF_vars(ToggleTimer(b))

\* ------------------------------------------------------------------------
\* Specification of the window's handlers
\* ------------------------------------------------------------------------

\* Scroll positions and header heights, in px.
ScrollYs == {0, 2}

HeaderHeights == {1}

NavScrollLefts == {0, 15, 30}

WrapperScrollTops == {0, 5}

InitWindow ==
  /\ prefersReducedMotion \in BOOLEAN
  /\ lastOp = Op("init", 0)
  /\ observers = <<>>
  /\ connected = {}
  /\ revealObserved = {}
  /\ elVisible = {}
  /\ currentTestimonialIndex = 0
  /\ testimonialInterval = 0
  /\ liveIntervals = {}
  /\ touchStartX = 0
  /\ touchEndX = 0
  /\ dotActive = {}
  /\ dotAria = [i \in Dots |-> "unset"]
  /\ dotTabindex = [i \in Dots |-> "unset"]
  /\ tabSection = [t \in Tabs |-> "none"]
  /\ tabActive = {}
  /\ tabAria = [t \in Tabs |-> "unset"]
  /\ tabTabindex = [t \in Tabs |-> "unset"]
  /\ initialTabTimer = FALSE
  /\ focusedTab = NoTab
  /\ LoadedPage
  /\ TogglesAfterInit([b \in Toggles |-> 0])
  /\ \E y \in ScrollYs, a \in HeaderHeights, h \in HeaderHeights,
        preload \in {"none", "metadata", "auto"} :
       WindowAfterInit(y, a, h, preload)
  /\ PlainFBT
  /\ PlainButtons
  /\ PlainGrid

NextWindow ==
  \/ \E y \in ScrollYs : WindowScroll(y)
  \/ \E event \in InteractionEvents \ {"scroll"} : WindowInteraction(event)
  \/ \E a \in HeaderHeights, h \in HeaderHeights : WindowResize(a, h)
  \/ ResizeTimer
  \/ \E left \in NavScrollLefts : NavScroll(left)
  \/ \E top \in WrapperScrollTops : WrapperScroll(top)
  \/ AnimationFrame
  \/ HeroTimer

SpecWindow == InitWindow /\ [][NextWindow]_vars

\* A timer that is set fires.
FairWindow == SpecWindow /\ WF_vars(HeroTimer)

\* ------------------------------------------------------------------------
\* Specifications of the sticky header: scroll positions below, between and
\* above two header heights
\* ------------------------------------------------------------------------

StickyYs == {0, 2, 4}

StickyHeights == {1, 3}

\* The page after init(), loaded at any of the scroll positions with headers of
\* any of the heights.
InitSticky ==
  /\ prefersReducedMotion \in BOOLEAN
  /\ lastOp = Op("init", 0)
  /\ observers = <<>>
  /\ connected = {}
  /\ revealObserved = {}
  /\ elVisible = {}
  /\ currentTestimonialIndex = 0
  /\ testimonialInterval = 0
  /\ liveIntervals = {}
  /\ touchStartX = 0
  /\ touchEndX = 0
  /\ dotActive = {}
  /\ dotAria = [i \in Dots |-> "unset"]
  /\ dotTabindex = [i \in Dots |-> "unset"]
  /\ tabSection = [t \in Tabs |-> "none"]
  /\ tabActive = {}
  /\ tabAria = [t \in Tabs |-> "unset"]
  /\ tabTabindex = [t \in Tabs |-> "unset"]
  /\ initialTabTimer = FALSE
  /\ focusedTab = NoTab
  /\ LoadedPage
  /\ TogglesAfterInit([b \in Toggles |-> 0])
  /\ \E y \in StickyYs, a \in StickyHeights, h \in StickyHeights :
       WindowAfterInit(y, a, h, "none")
  /\ PlainFBT
  /\ PlainButtons
  /\ PlainGrid

\* The window's events of a run in which the window is never resized.
NextScrolling ==
  \/ \E y \in StickyYs : WindowScroll(y)
  \/ \E event \in InteractionEvents \ {"scroll"} : WindowInteraction(event)
  \/ \E left \in NavScrollLefts : NavScroll(left)
  \/ \E top \in WrapperScrollTops : WrapperScroll(top)
  \/ AnimationFrame
  \/ HeroTimer

SpecScrolling == InitSticky /\ [][NextScrolling]_vars

\* The same events and resizes of the window.
NextSticky ==
  \/ \E y \in StickyYs : WindowScroll(y)
  \/ \E a \in StickyHeights, h \in StickyHeights : WindowResize(a, h)
  \/ ResizeTimer
  \/ AnimationFrame

SpecSticky == InitSticky /\ [][NextSticky]_vars

\* ------------------------------------------------------------------------
\* Specification of the price calculator
\* ------------------------------------------------------------------------

\* Label texts: a whole-dollar price, a price with a thousands comma, no price,
\* a price with two commas, one starting with the point, a dollar sign without
\* a number after it.
LabelTexts ==
  { <<"A", " ", "$", "5">>,
    <<"B", " ", "-", " ", "$", "1", ",", "2", "9", "9", ".", "5", "0">>,
    <<"C">>,
    <<"$", "9", "9", "9", ",", "9", "9", "9", ",", "9", "9", "9", ".", "9", "9">>,
    <<"$", "3", "3", "3", ",", "3", "3", "3", ".", "3", "3", " ", "e", "a">>,
    <<"$", ",", ".", "x">> }

InitFBT ==
  /\ prefersReducedMotion \in BOOLEAN
  /\ lastOp = Op("init", 0)
  /\ observers = <<>>
  /\ connected = {}
  /\ revealObserved = {}
  /\ elVisible = {}
  /\ currentTestimonialIndex = 0
  /\ testimonialInterval = 0
  /\ liveIntervals = {}
  /\ touchStartX = 0
  /\ touchEndX = 0
  /\ dotActive = {}
  /\ dotAria = [i \in Dots |-> "unset"]
  /\ dotTabindex = [i \in Dots |-> "unset"]
  /\ tabSection = [t \in Tabs |-> "none"]
  /\ tabActive = {}
  /\ tabAria = [t \in Tabs |-> "unset"]
  /\ tabTabindex = [t \in Tabs |-> "unset"]
  /\ initialTabTimer = FALSE
  /\ focusedTab = NoTab
  /\ LoadedPage
  /\ TogglesAfterInit([b \in Toggles |-> 0])
  /\ WindowAfterInit(0, 1, 1, "none")
  /\ \E labels \in [Boxes -> LabelTexts], checked \in [Boxes -> BOOLEAN] :
       FBTAfterInit(labels, checked)
  /\ PlainButtons
  /\ PlainGrid

NextFBT == \E i \in Boxes : CheckboxChange(i)

SpecFBT == InitFBT /\ [][NextFBT]_vars

\* ------------------------------------------------------------------------
\* Specification of the button click listeners
\* ------------------------------------------------------------------------

InitButtons ==
  /\ prefersReducedMotion \in BOOLEAN
  /\ lastOp = Op("init", 0)
  /\ observers = <<>>
  /\ connected = {}
  /\ revealObserved = {}
  /\ elVisible = {}
  /\ currentTestimonialIndex = 0
  /\ testimonialInterval = 0
  /\ liveIntervals = {}
  /\ touchStartX = 0
  /\ touchEndX = 0
  /\ dotActive = {}
  /\ dotAria = [i \in Dots |-> "unset"]
  /\ dotTabindex = [i \in Dots |-> "unset"]
  /\ tabSection = [t \in Tabs |-> "none"]
  /\ tabActive = {}
  /\ tabAria = [t \in Tabs |-> "unset"]
  /\ tabTabindex = [t \in Tabs |-> "unset"]
  /\ initialTabTimer = FALSE
  /\ focusedTab = NoTab
  /\ LoadedPage
  /\ TogglesAfterInit([b \in Toggles |-> 0])
  /\ WindowAfterInit(0, 1, 1, "none")
  /\ PlainFBT
  /\ \E count \in 0 .. 1 : ButtonsAfterInit(count, prefersReducedMotion)
  /\ PlainGrid

MotionChangeButtons ==
  \E b \in BOOLEAN :
    MotionChange(b) /\ UNCHANGED <<observerVars, carouselVars, tabVars, loadVars, toggleVars, windowVars, fbtVars, buttonVars, staggerVars>>

NextButtons ==
  \/ \E button \in Buttons : ButtonClick(button)
  \/ CartTimer
  \/ RippleTimer
  \/ MotionChangeButtons

SpecButtons == InitButtons /\ [][NextButtons]_vars

\* ------------------------------------------------------------------------
\* Specification of the stagger delays
\* ------------------------------------------------------------------------

\* The state after init() on a page with any parent of at most MaxChildren children.
InitStagger ==
  /\ prefersReducedMotion \in BOOLEAN
  /\ lastOp = Op("init", 0)
  /\ observers = <<>>
  /\ connected = {}
  /\ revealObserved = {}
  /\ elVisible = {}
  /\ currentTestimonialIndex = 0
  /\ testimonialInterval = 0
  /\ liveIntervals = {}
  /\ touchStartX = 0
  /\ touchEndX = 0
  /\ dotActive = {}
  /\ dotAria = [i \in Dots |-> "unset"]
  /\ dotTabindex = [i \in Dots |-> "unset"]
  /\ tabSection = [t \in Tabs |-> "none"]
  /\ tabActive = {}
  /\ tabAria = [t \in Tabs |-> "unset"]
  /\ tabTabindex = [t \in Tabs |-> "unset"]
  /\ initialTabTimer = FALSE
  /\ focusedTab = NoTab
  /\ LoadedPage
  /\ TogglesAfterInit([b \in Toggles |-> 0])
  /\ WindowAfterInit(0, 1, 1, "none")
  /\ PlainFBT
  /\ PlainButtons
  /\ \E g \in Grids : GridAfterInit(g, prefersReducedMotion)

MotionChangeStagger ==
  \E b \in BOOLEAN :
    MotionChange(b) /\ UNCHANGED <<notStagger, staggerVars>>

NextStagger ==
  \/ StaggerFrame
  \/ MotionChangeStagger

SpecStagger == InitStagger /\ [][NextStagger]_vars

\* ------------------------------------------------------------------------
\* Properties
\* ------------------------------------------------------------------------

\* C1: whatever events preceded it, cleanup leaves every observer the script
\* created disconnected and no testimonial auto-advance interval live.
CleanupLeavesNothingLive ==
  lastOp.op = "cleanup" => (connected = {} /\ liveIntervals = {})

\* Cleanup has run on a page with both observers, after the carousel was used and
\* an interval had been started.
CleanupAfterEventsReached ==
  /\ lastOp.op = "cleanup"
  /\ Len(observers) = 2
  /\ testimonialInterval # 0
  /\ currentTestimonialIndex # 0
  /\ elVisible = Animated

\* C7: on touchend with d = touchEndX - touchStartX, d > 75 moves to the previous
\* testimonial and d < -75 to the next one, both resetting the auto-advance
\* interval; |d| <= 75 leaves the index, the dots and the interval unchanged.
SwipeThresholdContract ==
  [][lastOp'.op = "touchend" =>
      LET d == touchEndX' - touchStartX
          shows(to) ==
            /\ currentTestimonialIndex' = to
            /\ dotActive' = {to}
            /\ \A i \in Dots : dotAria'[i] = (IF i = to THEN "true" ELSE "false")
            /\ \A i \in Dots : dotTabindex'[i] = (IF i = to THEN "0" ELSE "-1")
          intervalReset ==
            /\ testimonialInterval \notin liveIntervals'
            /\ prefersReducedMotion => liveIntervals' = liveIntervals \ {testimonialInterval}
            /\ ~prefersReducedMotion =>
                 /\ testimonialInterval' # testimonialInterval
                 /\ testimonialInterval' \notin liveIntervals
                 /\ liveIntervals' = (liveIntervals \ {testimonialInterval})
                                       \cup {testimonialInterval'}
      IN /\ d > 75 =>
              /\ shows((currentTestimonialIndex + NDots - 1) % NDots)
              /\ intervalReset
         /\ d < -75 =>
              /\ shows((currentTestimonialIndex + 1) % NDots)
              /\ intervalReset
         /\ (d >= -75 /\ d <= 75) =>
              UNCHANGED <<currentTestimonialIndex, dotVars, intervalVars>>
  ]_vars

\* A touchend exactly at the threshold (|d| = 75) has been handled.
SwipeAtThresholdReached ==
  /\ lastOp.op = "touchend"
  /\ Abs(touchEndX - touchStartX) = 75

\* C2: an init* function whose required elements are absent returns without
\* registering a listener, timer, animation frame or observer and without writing
\* to any element or to module state.
NoOpWhenElementsAbsent ==
  LET q == lastInit.found
      incomplete(c) == ~c.button \/ ~c.container
      absent ==
        CASE lastInit.fn = "initTabNavigation" -> q.tabs = 0
          [] lastInit.fn = "initDropdownNavigation" -> q.wrappers = 0
          [] lastInit.fn = "initProductToggles" -> incomplete(q.tz) /\ incomplete(q.nsa)
          [] lastInit.fn = "initScrollAnimations" -> q.elements = 0
          [] lastInit.fn = "initStickyHeader" -> ~q.brandHeader \/ ~q.amazonHeader
          [] lastInit.fn = "initBackToTop" -> ~q.link
          [] lastInit.fn = "initCartCounter" -> ~q.cartCount \/ q.buttons = 0
          [] lastInit.fn = "initTestimonialCarousel" -> q.dots = 0
          [] lastInit.fn = "initVideoThumbnails" -> q.thumbnails = 0 \/ ~q.iframe
          [] lastInit.fn = "initCategoryTiles" -> q.tiles = 0
          [] lastInit.fn = "initMobileNavScrollIndicators" -> ~q.brandNav \/ ~q.container
          [] lastInit.fn = "initImageErrorHandling" -> q.pending = 0
          [] lastInit.fn = "initLazyLoading" -> q.images = 0
          [] lastInit.fn = "initButtonHoverPolish" -> q.plain = 0
          [] lastInit.fn = "initButtonRippleEffect" -> q.buttons = 0
          [] lastInit.fn = "initHeroVideo" -> ~q.video
          [] lastInit.fn = "initComparisonTable" -> ~q.table \/ ~q.thead \/ ~q.tbody
          [] lastInit.fn = "initFrequentlyBoughtTogether" ->
               ~q.container \/ q.checkboxes = 0 \/ ~q.price \/ ~q.button
          [] lastInit.fn = "initProductCardEnhancements" -> q.cards = 0
          [] OTHER -> FALSE
  IN absent =>
       /\ lastInit.did.listeners = 0
       /\ lastInit.did.timers = 0
       /\ lastInit.did.frames = 0
       /\ lastInit.did.observers = 0
       /\ lastInit.did.domWrites = 0
       /\ lastInit.did.stateWrites = 0

\* initComparisonTable has run on a page whose table has a body and no thead.
TableWithoutTheadReached ==
  /\ lastInit.fn = "initComparisonTable"
  /\ lastInit.found.table
  /\ ~lastInit.found.thead
  /\ lastInit.found.tbody
  /\ lastInit.found.wrapper
  /\ lastInit.found.cells > 0

\* C3: init() runs exactly once per page load, and with it each init* function:
\* at once when the script is evaluated with readyState other than 'loading', on
\* DOMContentLoaded otherwise; never twice, and in the end not zero times.
InitRunsExactlyOnce ==
  /\ [](/\ initCalls = (IF evaluated /\ (evaluatedAt # "loading" \/ dclFired)
                          THEN 1 ELSE 0)
        /\ \A k \in 1 .. NInit :
             initRuns[InitFunctions[k]] =
               (IF initCalls = 1 /\ (initPc = 0 \/ k < initPc) THEN 1 ELSE 0))
  /\ <>[](initCalls = 1 /\ initPc = 0
          /\ \A k \in 1 .. NInit : initRuns[InitFunctions[k]] = 1)

\* init() has returned after it was called from the DOMContentLoaded listener.
InitViaListenerReached ==
  /\ evaluatedAt = "loading"
  /\ dclFired
  /\ initCalls = 1
  /\ initPc = 0
  /\ \A k \in 1 .. NInit : initRuns[InitFunctions[k]] = 1

\* C8: after an operation that activates a tab (tab click, Enter or Space on a
\* tab, the section observer's callback, setInitialActiveTab, a category tile
\* click) exactly one tab carries brand-nav__tab--active: the one the operation
\* targets, which is also the only tab with aria-selected 'true'.
ActivationSelectsOneTab ==
  LET target ==
        CASE lastOp.op \in {"tabClick", "tabKeyActivate"} -> lastOp.idx
          [] lastOp.op \in {"sectionCallback", "setInitialActiveTab", "tileClick"} ->
               IF lastOp.secs = <<>> THEN NoTab ELSE FirstTabOf(lastOp.secs[1])
          [] OTHER -> NoTab
  IN target # NoTab =>
       /\ tabActive = {target}
       /\ {t \in Tabs : tabAria[t] = "true"} = {target}

\* The section observer has moved the active tab to the second tab.
ObserverActivatedSecondTabReached ==
  /\ lastOp.op = "sectionCallback"
  /\ lastOp.secs # <<>>
  /\ tabActive = {1}
  /\ tabAria[0] = "false"

\* C4: a click on a toggle button that arrives while its isAnimating is true
\* changes nothing: isExpanded, aria-expanded, the button's text and disabled
\* state, the cards and the pending timers stay as they are.
ClickWhileAnimatingChangesNothing ==
  [][\A b \in Toggles :
       (lastOp'.op = "toggleClick" /\ lastOp'.secs = <<b>> /\ isAnimating[b]) =>
         UNCHANGED <<isExpanded, isAnimating, ariaExpanded, buttonText, buttonDisabled,
                     cards, timers>>
  ]_vars

\* A click has arrived in the middle of an animation: some of the timers of the
\* accepted click have fired, others are pending.
ClickMidAnimationReached ==
  /\ lastOp.op = "toggleClick"
  /\ lastOp.secs = <<"tz-see-more">>
  /\ isAnimating["tz-see-more"]
  /\ nCards["tz-see-more"] >= 2
  /\ Len(timers["tz-see-more"]) = 1

\* C5: every accepted click (isAnimating set) is eventually followed by isAnimating
\* false and the button enabled, on expand and on collapse, for any number of gen7
\* cards including zero.
AcceptedClickReenables ==
  \A b \in Toggles : isAnimating[b] ~> (~isAnimating[b] /\ ~buttonDisabled[b])

\* A collapse of a container without gen7 cards has re-enabled its button.
EmptyCollapseReenabledReached ==
  /\ lastOp.op = "toggleTimer"
  /\ lastOp.secs = <<"nsa-see-more", "finish">>
  /\ nCards["nsa-see-more"] = 0
  /\ ~isAnimating["nsa-see-more"]
  /\ ~buttonDisabled["nsa-see-more"]

\* C6: a call made through one gate while that gate has no frame pending is
\* scheduled, whatever frames are pending in the other gates, and leaves the other
\* gates' flags alone.
GateCallNeverDroppedByOtherGate ==
  [][LET through == [stickyHeader |-> {"windowScroll"},
                     comparisonTable |-> {"wrapperScroll"},
                     mobileNav |-> {"navScroll", "windowResize"}]
     IN \A g \in Gates :
          (lastOp'.op \in through[g] /\ ~ticking[g]) =>
            /\ ticking'[g]
            /\ rafQueue' = Append(rafQueue, g)
            /\ \A h \in Gates \ {g} : ticking'[h] = ticking[h]]_vars

\* The comparison table's wrapper scrolled while the sticky header's frame was
\* pending, and its callback was scheduled behind it.
TableCallBehindStickyFrameReached ==
  /\ lastOp.op = "wrapperScroll"
  /\ Len(rafQueue) >= 2
  /\ rafQueue[Len(rafQueue)] = "comparisonTable"
  /\ \E i \in 1..(Len(rafQueue) - 1) : rafQueue[i] = "stickyHeader"
  /\ ticking["stickyHeader"]
  /\ ticking["comparisonTable"]

\* C10: for a hero video with preload 'none' at init, load() and play() are called
\* at most once each; they have been called as soon as the timer has fired or a
\* listened event has occurred, and not before; an interaction leaves no timer and
\* no listener behind; and they are called eventually.
HeroVideoLoadsOnce ==
  /\ [](preloadAtInit = "none" =>
          /\ loadCalls <= 1
          /\ playCalls = loadCalls
          /\ (loadCalls = 0) <=> (heroTimer /\ heroListeners = InteractionEvents)
          /\ heroListeners # InteractionEvents => (heroListeners = {} /\ ~heroTimer))
  /\ (preloadAtInit = "none" => <>[](loadCalls = 1))

\* The timer started the video first; a later mousemove, touchstart or keydown
\* reached onInteraction and did not load again.
InteractionAfterTimerReached ==
  /\ preloadAtInit = "none"
  /\ lastOp.op = "windowInteraction"
  /\ lastOp.idx = 1
  /\ lastOp.secs = <<"heard">>
  /\ loadCalls = 1
  /\ heroListeners = {}

\* C9: after init and after every change event the displayed total reads as the
\* sum of the extracted prices of exactly the checked checkboxes, written with a
\* dollar sign and two decimals, and is $0.00 when none is checked; it is $NaN when
\* a checked label's price was extracted as not a number.
DisplayedTotalIsSumOfChecked ==
  LET sum[n \in 0 .. NCheckboxes] ==
        IF n = 0 THEN 0
        ELSE sum[n - 1] + (IF fbtChecked[n - 1] THEN prices[n - 1] ELSE 0)
      read[i \in 0 .. Len(totalText)] ==
        IF i = 0 THEN 0
        ELSE IF totalText[i] \in DigitSet
               THEN read[i - 1] * 10 + DigitValue(totalText[i])
               ELSE read[i - 1]
      len == Len(totalText)
  IN /\ ((\A i \in Boxes : ~fbtChecked[i]) => totalText = <<"$", "0", ".", "0", "0">>)
     /\ IF \E i \in Boxes : fbtChecked[i] /\ prices[i] = NaN
          THEN totalText = <<"$", "N", "a", "N">>
          ELSE /\ len >= 5
               /\ totalText[1] = "$"
               /\ totalText[len - 2] = "."
               /\ \A i \in 2 .. len : i # len - 2 => totalText[i] \in DigitSet \cup {","}
               /\ totalText[len - 1] \in DigitSet
               /\ totalText[len] \in DigitSet
               /\ read[len] = sum[NCheckboxes]

\* A change event unchecked the middle one of three priced items: the total shows
\* the other two, with a thousands comma.
UncheckedItemLeftOutReached ==
  /\ lastOp = Op("checkboxChange", 1)
  /\ prices[0] = 129950
  /\ prices[1] = 500
  /\ prices[2] = 129950
  /\ \A i \in Boxes : fbtChecked[i] <=> i \in {0, 2}
  /\ totalText = <<"$", "2", ",", "5", "9", "9", ".", "0", "0">>

\* C11: roving tabindex: in every state after initTabNavigation exactly one tab has
\* tabindex '0' and every other tab has tabindex '-1'.
ExactlyOneTabInTabOrder ==
  /\ \A t \in Tabs : tabTabindex[t] \in {"0", "-1"}
  /\ Cardinality({t \in Tabs : tabTabindex[t] = "0"}) = 1

\* C12: a click on a "See options" button of the comparison table's last row never
\* changes the cart count: currentCount, the text and the style of the cart count
\* and its pending timeouts stay as they are.
SeeOptionsClickLeavesCartAlone ==
  [][(lastOp'.op = "buttonClick" /\ lastOp'.secs[1] = "lastRow") => UNCHANGED cartVars]_vars

\* A "See options" button with a scroll target was clicked after the cart had
\* counted two clicks, while the cart count's animation was still pending.
SeeOptionsClickedAfterCartClicksReached ==
  /\ lastOp.op = "buttonClick"
  /\ lastOp.secs[1] = "lastRow"
  /\ lastOp.idx < NScrollTargets
  /\ currentCount = 2
  /\ cartCountText = 2
  /\ cartTimers # <<>>

\* C13: whenever the preference is 'reduce' at the moment a ripple-eligible button
\* is clicked, the click creates no ripple element.
NoRippleWhileMotionReduced ==
  [][(lastOp'.op = "buttonClick" /\ lastOp'.secs[2] = "ripple" /\ prefersReducedMotion)
       => ripples' = ripples]_vars

\* C14: initLazyLoading leaves the first 3 images without a loading attribute
\* untouched and sets loading='lazy' on every later one.
LazyFromTheFourthImage ==
  lastInit.fn = "initLazyLoading" =>
    LET later == {index \in 0 .. (lastInit.found.images - 1) : index >= 3}
    IN /\ LazyImages(lastInit.found.images) = later
       /\ lastInit.did.domWrites = Cardinality(later)

\* C15: when the re-enable timer of a toggle fires, no per-card timer of the same
\* click is still pending; and the delays say so for every card count and column
\* count: each reveal delay lies below (gridCols-1)*100+400, each hide delay below
\* max((n-1)*40+300, 500).  The delays do not depend on the state, so they are
\* compared once, in the initial states.
ReenableTimerFiresLast ==
  /\ [][\A b \in Toggles :
          (/\ lastOp'.op = "toggleTimer"
           /\ lastOp'.secs[1] = b
           /\ lastOp'.secs[2] \in {"enable", "finish"}) => timers'[b] = <<>>]_vars
  /\ [](lastOp.op = "init" =>
        \A n \in 0 .. (4 * MaxCards), gridCols \in 1 .. (4 * MaxCols) :
          LET expand == ExpandTimers(n, gridCols)
              collapse == CollapseTimers(n)
          IN /\ expand[n + 1].kind = "enable"
             /\ expand[n + 1].due = ((gridCols - 1) * 100) + 400
             /\ collapse[n + 1].kind = "finish"
             /\ collapse[n + 1].due = Max(((n - 1) * 40) + 300, 500)
             /\ \A k \in 1 .. n :
                  /\ expand[k].due = ((k - 1) % gridCols) * 100
                  /\ expand[k].due < expand[n + 1].due
                  /\ collapse[k].due = (k - 1) * 40
                  /\ collapse[k].due < collapse[n + 1].due)

\* The re-enable timer of an expand of two cards in two columns has fired, after
\* both cards' timers.
EnableAfterBothRevealsReached ==
  /\ lastOp.op = "toggleTimer"
  /\ lastOp.secs = <<"tz-see-more", "enable">>
  /\ nCards["tz-see-more"] = 2
  /\ timers["tz-see-more"] = <<>>
  /\ ~isAnimating["tz-see-more"]
  /\ \A k \in 1 .. 2 :
       cards["tz-see-more"][k].visible \/ cards["tz-see-more"][k].opacity = "1"

\* C16: whenever a collapse has completed (isExpanded false and isAnimating false,
\* the button text being the one a collapse writes), every gen7 card of the
\* container has display 'none', empty inline opacity and transform and no class
\* 'visible', however prefersReducedMotion changed.
CollapsedCardsAreClean ==
  \A b \in Toggles :
    (~isExpanded[b] /\ ~isAnimating[b] /\ buttonText[b] = "See more products") =>
      \A k \in DOMAIN cards[b] :
        /\ cards[b][k].display = "none"
        /\ cards[b][k].opacity = ""
        /\ cards[b][k].transform = ""
        /\ ~cards[b][k].visible

\* A collapse has completed for two cards of which one had been revealed under
\* reduced motion (inline styles) and the other with the animation classes.
CollapseAfterMixedRevealReached ==
  /\ lastOp.op = "toggleTimer"
  /\ lastOp.secs = <<"tz-see-more", "finish">>
  /\ nCards["tz-see-more"] = 2
  /\ ~isExpanded["tz-see-more"]
  /\ ~isAnimating["tz-see-more"]
  /\ cards["tz-see-more"][1].fadeInUp # cards["tz-see-more"][2].fadeInUp

\* C17: whenever an expand has completed (isExpanded true and isAnimating false),
\* every gen7 card of the container has display 'block' and is revealed: it carries
\* class 'visible' or has inline opacity '1'.
ExpandedCardsAreRevealed ==
  \A b \in Toggles :
    (isExpanded[b] /\ ~isAnimating[b]) =>
      \A k \in DOMAIN cards[b] :
        /\ cards[b][k].display = "block"
        /\ cards[b][k].visible \/ cards[b][k].opacity = "1"

\* An expand has completed during which the preference changed: one card carries
\* class 'visible', the other has inline opacity '1' and no class.
ExpandWithMotionChangeReached ==
  /\ lastOp.op = "toggleTimer"
  /\ lastOp.secs = <<"tz-see-more", "enable">>
  /\ isExpanded["tz-see-more"]
  /\ ~isAnimating["tz-see-more"]
  /\ nCards["tz-see-more"] = 2
  /\ \E k, m \in 1 .. 2 :
       /\ cards["tz-see-more"][k].visible
       /\ ~cards["tz-see-more"][m].visible
       /\ cards["tz-see-more"][m].opacity = "1"

\* C18: in every state of a toggle, button.disabled equals isAnimating and
\* aria-expanded equals isExpanded; and once a click has been accepted the button
\* text is 'Show fewer products' exactly when isExpanded is true and 'See more
\* products' exactly when it is false.
ButtonMirrorsToggleState ==
  \A b \in Toggles :
    /\ buttonDisabled[b] = isAnimating[b]
    /\ ariaExpanded[b] = (IF isExpanded[b] THEN "true" ELSE "false")
    /\ (isExpanded[b] \/ isAnimating[b]) => buttonText[b] # "html"
    /\ buttonText[b] # "html" =>
         /\ (buttonText[b] = "Show fewer products") <=> isExpanded[b]
         /\ (buttonText[b] = "See more products") <=> ~isExpanded[b]

\* A collapse is under way: the button is disabled, aria-expanded is 'false' and
\* the text is back at 'See more products' while cards are still to be hidden.
CollapseUnderWayReached ==
  /\ lastOp.op = "toggleTimer"
  /\ lastOp.secs = <<"tz-see-more", "hide">>
  /\ isAnimating["tz-see-more"]
  /\ buttonDisabled["tz-see-more"]
  /\ ~isExpanded["tz-see-more"]
  /\ ariaExpanded["tz-see-more"] = "false"
  /\ buttonText["tz-see-more"] = "See more products"
  /\ timers["tz-see-more"] # <<>>

StickyAfterResize ==
  lastOp.op = "resizeTimer" =>
    /\ stickyThreshold = amazonHeight
    /\ isSticky <=> scrollY > stickyThreshold

\* C21: in every reachable state of the sticky header, isSticky is true exactly
\* when the brand header carries class brand-header--sticky and inline position
\* 'fixed', and while isSticky is true the body's paddingTop is the cached
\* brandHeaderHeight in px, also after the resize handler measured again.
StickyStylesMirrorFlag ==
  /\ isSticky <=> (headerSticky /\ headerPosition = "fixed")
  /\ headerSticky <=> headerPosition = "fixed"
  /\ isSticky => bodyPaddingTop = <<brandHeaderHeight, "px">>

\* The resize handler ran on a sticky header whose height had changed, and kept
\* it sticky: the padding is the new height, not the one applied before.
StickyKeptAcrossResizeReached ==
  /\ lastOp.op = "resizeTimer"
  /\ isSticky
  /\ scrollY = 4
  /\ brandHeaderHeight = 3
  /\ stickyThreshold = 3

\* The last handler was one of the carousel's operations: an auto-advance tick, a
\* dot click, Enter, Space or an arrow key on a dot, or a touch that ended more
\* than the threshold away from where it started.
CarouselOperation ==
  \/ lastOp.op \in {"intervalTick", "dotClick"}
  \/ lastOp.op = "dotKeydown" /\ lastOp.secs[1] \in {"Enter", " ", "ArrowRight", "ArrowLeft"}
  \/ lastOp.op = "touchend" /\ Abs(touchEndX - touchStartX) > TOUCH_SWIPE_THRESHOLD

\* Exactly the dot at currentTestimonialIndex is active, selected and in tab order.
OnlyCurrentDotActive ==
  /\ dotActive = {currentTestimonialIndex}
  /\ \A i \in Dots :
       /\ dotAria[i] = "true" <=> i = currentTestimonialIndex
       /\ dotTabindex[i] = "0" <=> i = currentTestimonialIndex

\* C22: after any sequence of carousel operations currentTestimonialIndex is in
\* 0 .. dots.length - 1 and, from the first operation on, exactly one dot has
\* class dot--active, aria-selected 'true' and tabindex '0': the dot at
\* currentTestimonialIndex.  Every operation leaves the dots so, and no step of
\* any handler undoes it.
OneActiveDotAtCurrentIndex ==
  /\ [](currentTestimonialIndex \in Dots)
  /\ [](CarouselOperation => OnlyCurrentDotActive)
  /\ [][OnlyCurrentDotActive => OnlyCurrentDotActive']_vars

\* A swipe to the right on the first testimonial, on a page whose HTML marks
\* another dot active, wrapped to the last dot.
SwipeWrappedToLastDotReached ==
  /\ lastOp.op = "touchend"
  /\ touchEndX - touchStartX > TOUCH_SWIPE_THRESHOLD
  /\ currentTestimonialIndex = NDots - 1
  /\ dotActive = {NDots - 1}
  /\ dotAria[0] = "false"

\* C23: the column index used for a grid-aware stagger delay is always in
\* 0 .. gridCols - 1, for the gen7 cards of initProductToggles and for the animated
\* elements of initScrollAnimations: no element receives a negative delay or a
\* delay of gridCols steps or more.
StaggerColumnInRange ==
  /\ \A k \in DOMAIN grid.children :
       transitionDelay[k] # <<>> =>
         \E c \in 0 .. (staggerGridCols(grid) - 1) : transitionDelay[k] = <<c * 8>>
  /\ lastOp.op = "init" =>
       \A n \in 0 .. MaxCards, gridCols \in (1 .. MaxCols) \cup {5} :
         \A k \in 1 .. n :
           \E c \in 0 .. (gridCols - 1) :
             ExpandTimers(n, gridCols)[k].due = c * PRODUCT_STAGGER_DELAY
====
